---- MODULE Spec2Model ----
(***************************************************************************)
(* A model of the Pyxl.Puppt pose engine: the joint hierarchy and forward  *)
(* kinematics (core/kinematics.ts), the pose interpolator                  *)
(* (core/interpolation.ts), the Verlet ragdoll (core/physics.ts) and the   *)
(* mode handling of App.tsx and view/Canvas.tsx.                           *)
(*                                                                         *)
(* Numbers.  Angles are integers counting quarter turns, so HALF_PI = 1,   *)
(* PI = 2 and one full turn is 4; cos and sin are then exact.  Lengths and *)
(* coordinates are integers counting 1/SCALE of a stage unit.  Masses are  *)
(* counted in tenths.  The interpolation parameter t is tNum / T_DEN and   *)
(* interpolated values are kept multiplied by T_DEN.                       *)
(***************************************************************************)
EXTENDS Integers, Sequences, FiniteSets, TLC

VARIABLES
    \* ---- core functions under test (kinematics / physics / interpolation)
    pc,             \* position of the driver that calls the core functions
    pose,           \* the PoseData handed to createPhysicsBodyFromPose / computeSkeleton
    previousPose,   \* the previousPose argument of extractPoseFromPhysicsBody
    body,           \* the PhysicsBody (particles, constraints, particleMap)
    newPose,        \* the PoseData a core function returned
    skeleton,       \* the Skeleton computeSkeleton returned
    \* ---- interpolatePoses
    poseA, poseB,   \* the two poses handed to interpolatePoses
    tNum,           \* interpolation parameter, t = tNum / T_DEN
    interpolated,   \* the pose interpolatePoses returned, every value times T_DEN
    \* ---- updatePhysicsBody, step by step
    dtMs,           \* dt in milliseconds
    iter,           \* solver iteration i
    cIdx,           \* index of the next constraint of the current iteration
    preCollide,     \* the particles as they were when the collision phase began
    \* ---- App.tsx
    keyframes, currentFrame,    \* timelineState (present of useHistory)
    past, future,               \* useHistory stacks
    isPlaying, isPhysicsEnabled,
    \* ---- Canvas.tsx
    localPose, draggedPartKey, dragMode,
    lastCall,       \* the callback the last handler invoked on App, if any
    \* ---- Canvas.tsx, the IK drags, and solveIK
    pinnedPoints,   \* pinnedPointsRef.current: joint key -> pinned point
    mouseDelta,     \* pos - initialMousePosRef.current of the mouse move
    ikDriverKey,    \* ikDriverKeyRef.current
    ikArgs,         \* the arguments of a solveIK call
    ikResult,       \* what that call returned
    \* ---- Canvas.tsx, what a mouse-down keeps for the drag
    activePivot,    \* the joint whose position is the active pivot, "" for null
    controlledJoint,    \* controlledJointRef.current, "" for null
    initialPoseRef, \* initialPoseRef.current: <<>> for null, <<pose>> otherwise
    \* ---- hooks/usePlayback.ts
    elapsed,        \* elapsedTime of the last animate call, in 1 / T_DEN of a frameDuration
    fromIndex, toIndex,     \* the keyframes that call interpolated between
    \* ---- pose objects
    heap            \* the PoseData objects: reference -> value

coreVars == <<pc, pose, previousPose, body, newPose, skeleton>>
interpVars == <<poseA, poseB, tNum, interpolated>>
stepVars == <<dtMs, iter, cIdx, preCollide>>
appVars == <<keyframes, currentFrame, past, future, isPlaying, isPhysicsEnabled>>
canvasVars == <<localPose, draggedPartKey, dragMode, lastCall>>
ikVars == <<pinnedPoints, mouseDelta, ikDriverKey, ikArgs, ikResult>>
dragVars == <<activePivot, controlledJoint, initialPoseRef>>
playVars == <<elapsed, fromIndex, toIndex>>
vars == <<coreVars, interpVars, stepVars, appVars, canvasVars, ikVars, dragVars, playVars, heap>>

----------------------------------------------------------------------------
(* Units *)

HALF_PI == 1
PI == 2 * HALF_PI
TWO_PI == 2 * PI
SCALE == 20

(* Bounds of the inputs *)
T_DEN == 4          \* t ranges over 0, 1/T_DEN, ..., 1
MaxTurns == 2       \* input angles range over -MaxTurns*PI .. MaxTurns*PI

Abs(n) == IF n < 0 THEN -n ELSE n

RECURSIVE SqrtBits(_, _, _)
SqrtBits(n, r, bit) ==
    IF bit = 0 THEN r
    ELSE IF (r + bit) * (r + bit) <= n THEN SqrtBits(n, r + bit, bit \div 2)
         ELSE SqrtBits(n, r, bit \div 2)

\* Math.hypot on fixed-point coordinates: the square root rounded down (exact
\* for a vector on an axis).
Hypot(dx, dy) ==
    IF dx = 0 THEN Abs(dy)
    ELSE IF dy = 0 THEN Abs(dx)
    ELSE SqrtBits(dx * dx + dy * dy, 0, 16384)

\* Math.cos / Math.sin at a whole number of quarter turns.
Cos(a) ==
    LET q == a % TWO_PI
    IN  CASE q = 0 -> 1 [] q = HALF_PI -> 0 [] q = PI -> -1 [] q = 3 * HALF_PI -> 0

Sin(a) ==
    LET q == a % TWO_PI
    IN  CASE q = 0 -> 0 [] q = HALF_PI -> 1 [] q = PI -> 0 [] q = 3 * HALF_PI -> -1

\* Math.atan2(dy, dx), defined where the result is a whole number of quarter
\* turns (the vector lies on an axis); its range is (-PI, PI].
Atan2(dy, dx) ==
    CASE dy = 0 /\ dx >= 0 -> 0
      [] dy = 0 /\ dx < 0 -> PI
      [] dx = 0 /\ dy > 0 -> HALF_PI
      [] dx = 0 /\ dy < 0 -> -HALF_PI

----------------------------------------------------------------------------
(* core/kinematics.ts: constants, hierarchy, BASE_ANGLES *)

W == 800 * SCALE
H == 800 * SCALE
HEAD_SIZE_UNIT == 105
LIMB_LENGTH == HEAD_SIZE_UNIT * 2
HEAD_SIZE == (HEAD_SIZE_UNIT * 8 * SCALE) \div 10
TORSO_HEIGHT == 150 * SCALE
WAIST_HEIGHT == 75 * SCALE
L_ARM == (LIMB_LENGTH * SCALE) \div 2
L_FOREARM == (LIMB_LENGTH * SCALE) \div 2
L_HAND == (HEAD_SIZE_UNIT * 4 * SCALE) \div 10
L_THIGH == 125 * SCALE
L_SHIN == 125 * SCALE
L_FOOT == (HEAD_SIZE_UNIT * 4 * SCALE) \div 10
shoulderWidth == 48 * SCALE
hipWidth == 29 * SCALE
HEAD_VISUAL_LEN == 1 * SCALE
HEAD_PHYSICS_LEN == (HEAD_SIZE * 10) \div 25

Sides == <<"left", "right">>

Keys == {"root", "torso", "waist", "head",
         "left.shoulder", "left.elbow", "left.hand",
         "right.shoulder", "right.elbow", "right.hand",
         "left.hip", "left.knee", "left.foot",
         "right.hip", "right.knee", "right.foot"}

\* Object.keys(hierarchy): the keys in the order the literal lists them.
HierarchyKeys ==
    <<"root", "torso", "waist", "head",
      "left.shoulder", "left.elbow", "left.hand",
      "right.shoulder", "right.elbow", "right.hand",
      "left.hip", "left.knee", "left.foot",
      "right.hip", "right.knee", "right.foot">>

hierarchy ==
    [k \in Keys |->
        CASE k = "root" -> [parent |-> "", children |-> <<"torso", "waist">>]
          [] k = "torso" -> [parent |-> "root",
                             children |-> <<"head", "left.shoulder", "right.shoulder">>]
          [] k = "waist" -> [parent |-> "root", children |-> <<"left.hip", "right.hip">>]
          [] k = "head" -> [parent |-> "torso", children |-> <<>>]
          [] k = "left.shoulder" -> [parent |-> "torso", children |-> <<"left.elbow">>]
          [] k = "left.elbow" -> [parent |-> "left.shoulder", children |-> <<"left.hand">>]
          [] k = "left.hand" -> [parent |-> "left.elbow", children |-> <<>>]
          [] k = "right.shoulder" -> [parent |-> "torso", children |-> <<"right.elbow">>]
          [] k = "right.elbow" -> [parent |-> "right.shoulder", children |-> <<"right.hand">>]
          [] k = "right.hand" -> [parent |-> "right.elbow", children |-> <<>>]
          [] k = "left.hip" -> [parent |-> "waist", children |-> <<"left.knee">>]
          [] k = "left.knee" -> [parent |-> "left.hip", children |-> <<"left.foot">>]
          [] k = "left.foot" -> [parent |-> "left.knee", children |-> <<>>]
          [] k = "right.hip" -> [parent |-> "waist", children |-> <<"right.knee">>]
          [] k = "right.knee" -> [parent |-> "right.hip", children |-> <<"right.foot">>]
          [] k = "right.foot" -> [parent |-> "right.knee", children |-> <<>>]]

\* BASE_ANGLES[key] || 0 ("root" has no entry)
BASE_ANGLES ==
    [k \in Keys |->
        CASE k = "torso" -> -HALF_PI
          [] k = "waist" -> HALF_PI
          [] k = "left.shoulder" -> -HALF_PI
          [] k = "right.shoulder" -> HALF_PI
          [] OTHER -> 0]

\* key.split('.') for the joint keys
Split(key) ==
    CASE key = "left.shoulder" -> <<"left", "shoulder">>
      [] key = "left.elbow" -> <<"left", "elbow">>
      [] key = "left.hand" -> <<"left", "hand">>
      [] key = "left.hip" -> <<"left", "hip">>
      [] key = "left.knee" -> <<"left", "knee">>
      [] key = "left.foot" -> <<"left", "foot">>
      [] key = "right.shoulder" -> <<"right", "shoulder">>
      [] key = "right.elbow" -> <<"right", "elbow">>
      [] key = "right.hand" -> <<"right", "hand">>
      [] key = "right.hip" -> <<"right", "hip">>
      [] key = "right.knee" -> <<"right", "knee">>
      [] key = "right.foot" -> <<"right", "foot">>
      [] OTHER -> <<key>>

\* `${side}.${joint}`
Join(side, joint) ==
    CASE side = "left" /\ joint = "shoulder" -> "left.shoulder"
      [] side = "left" /\ joint = "elbow" -> "left.elbow"
      [] side = "left" /\ joint = "hand" -> "left.hand"
      [] side = "left" /\ joint = "hip" -> "left.hip"
      [] side = "left" /\ joint = "knee" -> "left.knee"
      [] side = "left" /\ joint = "foot" -> "left.foot"
      [] side = "right" /\ joint = "shoulder" -> "right.shoulder"
      [] side = "right" /\ joint = "elbow" -> "right.elbow"
      [] side = "right" /\ joint = "hand" -> "right.hand"
      [] side = "right" /\ joint = "hip" -> "right.hip"
      [] side = "right" /\ joint = "knee" -> "right.knee"
      [] side = "right" /\ joint = "foot" -> "right.foot"

\* The keys of PoseData that hold an angle (every hierarchy joint but root).
AngleKeys == Keys \ {"root"}

\* Read / write the local angle a joint key names in a pose.
GetAngle(p, key) ==
    LET parts == Split(key)
    IN  IF Len(parts) = 2 THEN p[parts[1]][parts[2]] ELSE p[key]

SetAngle(p, key, v) ==
    LET parts == Split(key)
    IN  IF Len(parts) = 2
        THEN [p EXCEPT ![parts[1]] = [@ EXCEPT ![parts[2]] = v]]
        ELSE [p EXCEPT ![key] = v]

getDefaultPose ==
    [offset |-> [x |-> 0, y |-> 0],
     torso |-> 0, waist |-> 0, head |-> 0,
     left |-> [shoulder |-> HALF_PI, elbow |-> 0, hand |-> 0,
               hip |-> 0, knee |-> 0, foot |-> 0],
     right |-> [shoulder |-> -HALF_PI, elbow |-> 0, hand |-> 0,
                hip |-> 0, knee |-> 0, foot |-> 0]]

getEndPoint(start, angle, length) ==
    [x |-> start.x + Cos(angle) * length, y |-> start.y + Sin(angle) * length]

Bone(key, start, end, width, angle) ==
    [key |-> key, start |-> start, end |-> end, width |-> width, angle |-> angle]

\* The arm of one side: joints and bones, in the order computeSkeleton stores them.
ArmOf(p, side, neckPos, torsoAngle) ==
    LET perpTorsoAngle == torsoAngle + HALF_PI
        shoulderXOffset == IF side = "right" THEN shoulderWidth ELSE -shoulderWidth
        shoulderPos == getEndPoint(neckPos, perpTorsoAngle, shoulderXOffset)
        shoulderKey == Join(side, "shoulder")
        shoulderAngle == torsoAngle + BASE_ANGLES[shoulderKey] + p[side].shoulder
        elbowPos == getEndPoint(shoulderPos, shoulderAngle, L_ARM)
        elbowKey == Join(side, "elbow")
        elbowAngle == shoulderAngle + BASE_ANGLES[elbowKey] + p[side].elbow
        handPos == getEndPoint(elbowPos, elbowAngle, L_FOREARM)
        handKey == Join(side, "hand")
        handAngle == elbowAngle + BASE_ANGLES[handKey] + p[side].hand
        handEnd == getEndPoint(handPos, handAngle, L_HAND)
    IN  [joints |-> <<[key |-> shoulderKey, p |-> shoulderPos],
                      [key |-> elbowKey, p |-> elbowPos],
                      [key |-> handKey, p |-> handPos]>>,
         bones |-> <<Bone(shoulderKey, shoulderPos, elbowPos, 36, shoulderAngle),
                     Bone(elbowKey, elbowPos, handPos, 28, elbowAngle),
                     Bone(handKey, handPos, handEnd, 16, handAngle)>>]

\* LegOf with the knee composed on the waist angle instead of the hip angle
MutLegOf(p, side, hipBasePos, waistAngle) ==
    LET perpWaistAngle == waistAngle - HALF_PI
        hipXOffset == IF side = "right" THEN hipWidth ELSE -hipWidth
        hipPos == getEndPoint(hipBasePos, perpWaistAngle, hipXOffset)
        hipKey == Join(side, "hip")
        hipAngle == waistAngle + BASE_ANGLES[hipKey] + p[side].hip
        kneePos == getEndPoint(hipPos, hipAngle, L_THIGH)
        kneeKey == Join(side, "knee")
        kneeAngle == waistAngle + BASE_ANGLES[kneeKey] + p[side].knee
        footPos == getEndPoint(kneePos, kneeAngle, L_SHIN)
        footKey == Join(side, "foot")
        footAngle == kneeAngle + BASE_ANGLES[footKey] + p[side].foot
        footEnd == getEndPoint(footPos, footAngle, L_FOOT)
    IN  [joints |-> <<[key |-> hipKey, p |-> hipPos],
                      [key |-> kneeKey, p |-> kneePos],
                      [key |-> footKey, p |-> footPos]>>,
         bones |-> <<Bone(hipKey, hipPos, kneePos, 44, hipAngle),
                     Bone(kneeKey, kneePos, footPos, 32, kneeAngle),
                     Bone(footKey, footPos, footEnd, 18, footAngle)>>]

\* The leg of one side.
LegOf(p, side, hipBasePos, waistAngle) ==
    LET perpWaistAngle == waistAngle - HALF_PI
        hipXOffset == IF side = "right" THEN hipWidth ELSE -hipWidth
        hipPos == getEndPoint(hipBasePos, perpWaistAngle, hipXOffset)
        hipKey == Join(side, "hip")
        hipAngle == waistAngle + BASE_ANGLES[hipKey] + p[side].hip
        kneePos == getEndPoint(hipPos, hipAngle, L_THIGH)
        kneeKey == Join(side, "knee")
        kneeAngle == hipAngle + BASE_ANGLES[kneeKey] + p[side].knee
        footPos == getEndPoint(kneePos, kneeAngle, L_SHIN)
        footKey == Join(side, "foot")
        footAngle == kneeAngle + BASE_ANGLES[footKey] + p[side].foot
        footEnd == getEndPoint(footPos, footAngle, L_FOOT)
    IN  [joints |-> <<[key |-> hipKey, p |-> hipPos],
                      [key |-> kneeKey, p |-> kneePos],
                      [key |-> footKey, p |-> footPos]>>,
         bones |-> <<Bone(hipKey, hipPos, kneePos, 44, hipAngle),
                     Bone(kneeKey, kneePos, footPos, 32, kneeAngle),
                     Bone(footKey, footPos, footEnd, 18, footAngle)>>]

\* computeSkeleton(pose): joints as the list of (key, point) entries in
\* insertion order (what Object.entries(skeleton.joints) enumerates), bones as
\* the boneCache list.
computeSkeleton(p) ==
    LET rootPos == [x |-> W \div 2 + p.offset.x, y |-> H \div 2 + p.offset.y]
        torsoAngle == BASE_ANGLES["torso"] + p.torso
        neckPos == getEndPoint(rootPos, torsoAngle, TORSO_HEIGHT)
        waistAngle == BASE_ANGLES["waist"] + p.waist
        hipBasePos == getEndPoint(rootPos, waistAngle, WAIST_HEIGHT)
        headAngle == torsoAngle + BASE_ANGLES["head"] + p.head
        headVisualEnd == getEndPoint(neckPos, headAngle, HEAD_VISUAL_LEN)
        headPhysicsCenter == getEndPoint(neckPos, headAngle, HEAD_PHYSICS_LEN)
        leftArm == ArmOf(p, Sides[1], neckPos, torsoAngle)
        rightArm == ArmOf(p, Sides[2], neckPos, torsoAngle)
        leftLeg == LegOf(p, Sides[1], hipBasePos, waistAngle)
        rightLeg == LegOf(p, Sides[2], hipBasePos, waistAngle)
    IN  [joints |-> <<[key |-> "root", p |-> rootPos],
                      [key |-> "torso", p |-> neckPos],
                      [key |-> "waist", p |-> hipBasePos],
                      [key |-> "head", p |-> headPhysicsCenter]>>
                    \o leftArm.joints \o rightArm.joints
                    \o leftLeg.joints \o rightLeg.joints,
         bones |-> <<Bone("torso", rootPos, neckPos, 100, torsoAngle),
                     Bone("waist", rootPos, hipBasePos, 60, waistAngle),
                     Bone("head", neckPos, headVisualEnd, HEAD_SIZE, headAngle)>>
                   \o leftArm.bones \o rightArm.bones
                   \o leftLeg.bones \o rightLeg.bones]

JointPoint(skel, key) ==
    LET i == CHOOSE j \in 1..Len(skel.joints) : skel.joints[j].key = key
    IN  skel.joints[i].p

----------------------------------------------------------------------------
(* core/physics.ts *)

FRICTION_NUM == 24          \* FRICTION = 0.96 = 24 / 25
FRICTION_DEN == 25
SOLVER_ITERATIONS == 15
GRAVITY_Y == 2500
STIFFNESS_NUM == 3          \* STIFFNESS = 0.75 = 3 / 4
STIFFNESS_DEN == 4
MASS_PRIMARY == 30          \* 3.0
MASS_PIVOT == 15            \* 1.5
MASS_END == 5               \* 0.5
PARTICLE_RADIUS == 5 * SCALE

shortestAngleDiff(from, to) ==
    LET diff == to - from
    IN  IF diff > PI THEN diff - TWO_PI
        ELSE IF diff < -PI THEN diff + TWO_PI
        ELSE diff

\* key.includes('hip') / key.includes('shoulder')
IncludesHipOrShoulder(key) ==
    key \in {"left.hip", "right.hip", "left.shoulder", "right.shoulder"}

\* the mass tiers with the waist among the primary masses
MutMassOf(key) ==
    IF key = "root" \/ key = "torso" \/ key = "waist" \/ IncludesHipOrShoulder(key)
    THEN MASS_PRIMARY
    ELSE IF key = "head" \/ key = "neck" THEN MASS_PIVOT
    ELSE MASS_END

MassOf(key) ==
    IF key = "root" \/ key = "torso" \/ IncludesHipOrShoulder(key) THEN MASS_PRIMARY
    ELSE IF key = "waist" \/ key = "head" \/ key = "neck" THEN MASS_PIVOT
    ELSE MASS_END

\* particleMap.get(key) !== undefined
HasParticle(b, key) == key \in DOMAIN b.particleMap

\* body.particles[particleMap.get(key)]; indices are 0-based as in the code.
ParticleAt(b, index) == b.particles[index + 1]

\* the constraint pushed with the child as particle A
MutPushConstraint(acc, parentIndex, childIndex, restLength) ==
    IF restLength * 10 > SCALE
    THEN Append(acc, [particleAIndex |-> childIndex,
                      particleBIndex |-> parentIndex,
                      restLength |-> restLength])
    ELSE acc

\* constraints.push(...) under the test restLength > 0.1
PushConstraint(acc, parentIndex, childIndex, restLength) ==
    IF restLength * 10 > SCALE
    THEN Append(acc, [particleAIndex |-> parentIndex,
                      particleBIndex |-> childIndex,
                      restLength |-> restLength])
    ELSE acc

Distance(a, b) == Hypot(b.x - a.x, b.y - a.y)

RECURSIVE ConstraintsFrom(_, _, _, _, _)
\* The two nested forEach loops over Object.keys(hierarchy) and children.
ConstraintsFrom(particles, particleMap, ki, ci, acc) ==
    IF ki > Len(HierarchyKeys) THEN acc
    ELSE LET parentKey == HierarchyKeys[ki]
             children == hierarchy[parentKey].children
         IN  IF parentKey \notin DOMAIN particleMap \/ ci > Len(children)
             THEN ConstraintsFrom(particles, particleMap, ki + 1, 1, acc)
             ELSE IF children[ci] \notin DOMAIN particleMap
             THEN ConstraintsFrom(particles, particleMap, ki, ci + 1, acc)
             ELSE ConstraintsFrom(particles, particleMap, ki, ci + 1,
                     PushConstraint(acc, particleMap[parentKey], particleMap[children[ci]],
                                    Distance(particles[particleMap[parentKey] + 1].pos,
                                             particles[particleMap[children[ci]] + 1].pos)))

\* The particles and the particleMap: one particle per entry of skeleton.joints.
ParticlesOf(joints) ==
    [i \in 1..Len(joints) |->
        [id |-> joints[i].key, pos |-> joints[i].p, prevPos |-> joints[i].p,
         mass |-> MassOf(joints[i].key)]]

ParticleMapOf(joints) ==
    [k \in {joints[i].key : i \in 1..Len(joints)} |->
        (CHOOSE i \in 1..Len(joints) : joints[i].key = k) - 1]

BodyOf(particles, particleMap) ==
    [particles |-> particles,
     constraints |-> ConstraintsFrom(particles, particleMap, 1, 1, <<>>),
     particleMap |-> particleMap]

createPhysicsBodyFromSkeleton(skel) ==
    BodyOf(ParticlesOf(skel.joints), ParticleMapOf(skel.joints))

createPhysicsBodyFromPose(p) == createPhysicsBodyFromSkeleton(computeSkeleton(p))

getParticlePos(b, key) == ParticleAt(b, b.particleMap[key]).pos

RECURSIVE calculateAngles(_, _, _, _, _)
RECURSIVE CalcChildren(_, _, _, _, _, _)

\* calculateAngles(parentKey, parentWorldAngle), returning the newPose it leaves.
calculateAngles(b, prev, np, parentKey, parentWorldAngle) ==
    CalcChildren(b, prev, np, parentKey, parentWorldAngle, 1)

\* The forEach over hierarchy[parentKey].children, from child i on.
CalcChildren(b, prev, np, parentKey, parentWorldAngle, i) ==
    LET children == hierarchy[parentKey].children
    IN  IF i > Len(children) THEN np
        ELSE LET childKey == children[i]
                 after ==
                    IF HasParticle(b, parentKey) /\ HasParticle(b, childKey)
                    THEN LET parentPos == getParticlePos(b, parentKey)
                             childPos == getParticlePos(b, childKey)
                             dx == childPos.x - parentPos.x
                             dy == childPos.y - parentPos.y
                             childWorldAngle == Atan2(dy, dx)
                             rawLocalAngle == childWorldAngle - parentWorldAngle
                                              - BASE_ANGLES[childKey]
                             previousLocalAngle == GetAngle(prev, childKey)
                             finalLocalAngle ==
                                previousLocalAngle
                                + shortestAngleDiff(previousLocalAngle, rawLocalAngle)
                             finalChildWorldAngle ==
                                parentWorldAngle + BASE_ANGLES[childKey] + finalLocalAngle
                         IN  calculateAngles(b, prev,
                                             SetAngle(np, childKey, finalLocalAngle),
                                             childKey, finalChildWorldAngle)
                    ELSE np
             IN  CalcChildren(b, prev, after, parentKey, parentWorldAngle, i + 1)

\* a new default pose in place of the copy of previousPose
MutCopyOfPrevious(prev) == getDefaultPose

\* const newPose = JSON.parse(JSON.stringify(previousPose))
CopyOfPrevious(prev) == prev

extractPoseFromPhysicsBody(b, prev) ==
    IF HasParticle(b, "root") /\ HasParticle(b, "torso") /\ HasParticle(b, "waist")
    THEN LET rootPos == getParticlePos(b, "root")
             torsoPos == getParticlePos(b, "torso")
             waistPos == getParticlePos(b, "waist")
             torsoWorldAngle == Atan2(torsoPos.y - rootPos.y, torsoPos.x - rootPos.x)
             waistWorldAngle == Atan2(waistPos.y - rootPos.y, waistPos.x - rootPos.x)
             rawTorsoAngle == torsoWorldAngle - BASE_ANGLES["torso"]
             newTorso == prev.torso + shortestAngleDiff(prev.torso, rawTorsoAngle)
             rawWaistAngle == waistWorldAngle - BASE_ANGLES["waist"]
             newWaist == prev.waist + shortestAngleDiff(prev.waist, rawWaistAngle)
             np0 == [CopyOfPrevious(prev) EXCEPT !.torso = newTorso,
                                 !.waist = newWaist,
                                 !.offset = [x |-> rootPos.x - W \div 2,
                                             y |-> rootPos.y - H \div 2]]
             finalTorsoWorldAngle == BASE_ANGLES["torso"] + newTorso
             finalWaistWorldAngle == BASE_ANGLES["waist"] + newWaist
             np1 == calculateAngles(b, prev, np0, "torso", finalTorsoWorldAngle)
         IN  calculateAngles(b, prev, np1, "waist", finalWaistWorldAngle)
    ELSE CopyOfPrevious(prev)

----------------------------------------------------------------------------
(* Inputs *)

AngleVals == (-MaxTurns * PI)..(MaxTurns * PI)

ZeroPose ==
    [offset |-> [x |-> 0, y |-> 0],
     torso |-> 0, waist |-> 0, head |-> 0,
     left |-> [shoulder |-> 0, elbow |-> 0, hand |-> 0, hip |-> 0, knee |-> 0, foot |-> 0],
     right |-> [shoulder |-> 0, elbow |-> 0, hand |-> 0, hip |-> 0, knee |-> 0, foot |-> 0]]

OffsetVals == {0, 10 * SCALE}

\* The rest poses the inputs start from.
BasePoses == {ZeroPose, getDefaultPose}

\* A base pose moved by ox, with joints k1 and k2 set to the angles a1 and a2
\* (k1 = k2 gives the poses with one joint bent).
BentPose(q, ox, k1, a1, k2, a2) ==
    SetAngle(SetAngle([q EXCEPT !.offset = [x |-> ox, y |-> 0]], k1, a1), k2, a2)

PoseInput(p) ==
    \E q \in BasePoses, ox \in OffsetVals, k1 \in AngleKeys, k2 \in AngleKeys,
       a1 \in AngleVals, a2 \in AngleVals : p = BentPose(q, ox, k1, a1, k2, a2)

EmptyBody == [particles |-> <<>>, constraints |-> <<>>, particleMap |-> <<>>]
EmptySkeleton == [joints |-> <<>>, bones |-> <<>>]

CoreIdle ==
    /\ pc = "idle" /\ pose = ZeroPose /\ previousPose = ZeroPose /\ body = EmptyBody
    /\ newPose = ZeroPose /\ skeleton = EmptySkeleton
InterpIdle == poseA = ZeroPose /\ poseB = ZeroPose /\ tNum = 0 /\ interpolated = ZeroPose
StepIdle == dtMs = 0 /\ iter = 0 /\ cIdx = 0 /\ preCollide = <<>>
AppIdle ==
    /\ keyframes = <<>> /\ currentFrame = 0 /\ past = <<>> /\ future = <<>>
    /\ isPlaying = FALSE /\ isPhysicsEnabled = FALSE
CanvasIdle ==
    localPose = 0 /\ draggedPartKey = "" /\ dragMode = "" /\ lastCall = ""
NoPoint == [x |-> 0, y |-> 0]
NoArgs == [rootPos |-> NoPoint, targetPos |-> NoPoint, l1 |-> 0, l2 |-> 0]
Null == [null |-> TRUE]
IkIdle ==
    /\ pinnedPoints = <<>> /\ mouseDelta = NoPoint /\ ikDriverKey = ""
    /\ ikArgs = NoArgs /\ ikResult = Null
DragIdle == activePivot = "" /\ controlledJoint = "" /\ initialPoseRef = <<>>
PlayIdle == elapsed = 0 /\ fromIndex = 0 /\ toIndex = 0
HeapIdle == heap = <<>>

----------------------------------------------------------------------------
(* Round trip: createPhysicsBodyFromPose(P), then at once                  *)
(* extractPoseFromPhysicsBody(body, P).                                    *)

InitRoundTrip ==
    /\ PoseInput(pose)
    /\ pc = "start" /\ previousPose = pose /\ body = EmptyBody
    /\ newPose = ZeroPose /\ skeleton = EmptySkeleton
    /\ InterpIdle
    /\ StepIdle /\ AppIdle /\ CanvasIdle /\ IkIdle /\ DragIdle /\ PlayIdle /\ HeapIdle

CreateBody ==
    /\ pc = "start"
    /\ body' = createPhysicsBodyFromPose(pose)
    /\ pc' = "built"
    /\ UNCHANGED <<pose, previousPose, newPose, skeleton, interpVars, stepVars, appVars, canvasVars, ikVars, dragVars, playVars, heap>>

ExtractPose ==
    /\ pc = "built"
    /\ newPose' = extractPoseFromPhysicsBody(body, previousPose)
    /\ pc' = "extracted"
    /\ UNCHANGED <<pose, previousPose, body, skeleton, interpVars, stepVars, appVars, canvasVars, ikVars, dragVars, playVars, heap>>

NextRoundTrip == CreateBody \/ ExtractPose

SpecRoundTrip == InitRoundTrip /\ [][NextRoundTrip]_vars

\* C1: a pose converted to a body and extracted back at once keeps every
\* local angle (torso, waist, head and the six joints of each side).
RoundTripKeepsAngles ==
    pc = "extracted" => \A k \in AngleKeys : GetAngle(newPose, k) = GetAngle(pose, k)

\* The round trip of the rest pose getDefaultPose() alone.
RoundTripKeepsDefaultPose ==
    (pc = "extracted" /\ pose = getDefaultPose) => newPose = pose

\* C15: the body has one particle for each of the 16 hierarchy joints, at
\* rest (prevPos = pos) on the joint's forward-kinematics position, with
\* mass 3.0 for root, torso, hips and shoulders, 1.5 for waist and head and
\* 0.5 for the others, and particleMap gives each joint id its index.
OneParticlePerJoint ==
    pc = "built" =>
        /\ Len(body.particles) = 16
        /\ Cardinality(Keys) = 16
        /\ DOMAIN body.particleMap = Keys
        /\ \A k \in Keys :
              LET index == body.particleMap[k]
                  particle == body.particles[index + 1]
              IN  /\ index \in 0..15
                  /\ particle.id = k
                  /\ particle.pos = JointPoint(computeSkeleton(pose), k)
                  /\ particle.prevPos = particle.pos
                  /\ particle.mass =
                       IF k \in {"root", "torso", "left.hip", "right.hip",
                                 "left.shoulder", "right.shoulder"} THEN 30
                       ELSE IF k \in {"waist", "head"} THEN 15
                       ELSE 5

\* a body built from a moved pose with a bent joint
OneParticlePerJointWitness ==
    /\ pc = "built"
    /\ pose.offset.x # 0
    /\ GetAngle(pose, "right.elbow") # 0
    /\ Len(body.particles) = 16

\* the parent-child pairs of the hierarchy
HierarchyEdges ==
    {e \in Keys \X Keys :
        \E i \in 1..Len(hierarchy[e[1]].children) : hierarchy[e[1]].children[i] = e[2]}

\* C16: the constraints of the body are, each once, the hierarchy edges
\* whose joints are at least 0.1 apart, with the parent as particle A, the
\* child as particle B and the distance between them as rest length; there
\* is no constraint for a shorter edge and no other constraint.
OneConstraintPerEdge ==
    pc = "built" =>
        LET posOf(k) == body.particles[body.particleMap[k] + 1].pos
            expected ==
              {[particleAIndex |-> body.particleMap[e[1]],
                particleBIndex |-> body.particleMap[e[2]],
                restLength |-> Distance(posOf(e[1]), posOf(e[2]))] :
                  e \in {f \in HierarchyEdges :
                            Distance(posOf(f[1]), posOf(f[2])) * 10 >= SCALE}}
        IN  /\ {body.constraints[i] : i \in 1..Len(body.constraints)} = expected
            /\ Len(body.constraints) = Cardinality(expected)

\* a body built from a pose with a bent knee, with the constraint from the
\* left hip (particle A) to the left knee (particle B)
OneConstraintPerEdgeWitness ==
    /\ pc = "built"
    /\ GetAngle(pose, "left.knee") # 0
    /\ Len(body.constraints) = 15
    /\ \E i \in 1..Len(body.constraints) :
          /\ body.constraints[i].particleAIndex = body.particleMap["left.hip"]
          /\ body.constraints[i].particleBIndex = body.particleMap["left.knee"]
          /\ body.constraints[i].restLength = L_THIGH


----------------------------------------------------------------------------
(* Forward kinematics: computeSkeleton(P) for the input poses.             *)

InitKinematics ==
    /\ PoseInput(pose)
    /\ pc = "start" /\ previousPose = ZeroPose /\ body = EmptyBody
    /\ newPose = ZeroPose /\ skeleton = EmptySkeleton
    /\ InterpIdle
    /\ StepIdle /\ AppIdle /\ CanvasIdle /\ IkIdle /\ DragIdle /\ PlayIdle /\ HeapIdle

ComputeSkeleton ==
    /\ pc = "start"
    /\ skeleton' = computeSkeleton(pose)
    /\ pc' = "computed"
    /\ UNCHANGED <<pose, previousPose, body, newPose, interpVars, stepVars, appVars, canvasVars, ikVars, dragVars, playVars, heap>>

\* a call of getDefaultPose(), as handleReset and the initial timeline make it
GetDefaultPose ==
    /\ pc = "start"
    /\ newPose' = getDefaultPose
    /\ pc' = "default"
    /\ UNCHANGED <<pose, previousPose, body, skeleton, interpVars, stepVars, appVars, canvasVars, ikVars, dragVars, playVars, heap>>

NextKinematics == ComputeSkeleton \/ GetDefaultPose

SpecKinematics == InitKinematics /\ [][NextKinematics]_vars

\* The angle of the bone segment stored under a key.
BoneAngle(skel, key) ==
    LET i == CHOOSE j \in 1..Len(skel.bones) : skel.bones[j].key = key
    IN  skel.bones[i].angle

\* C10: the angle of every non-root joint's bone is the world angle of its
\* hierarchy parent (0 for root) plus its base angle plus its local angle.
BoneAnglesCompose ==
    pc = "computed" =>
        /\ {skeleton.bones[i].key : i \in 1..Len(skeleton.bones)} = AngleKeys
        /\ \A k \in AngleKeys :
              LET parent == hierarchy[k].parent
                  parentWorld == IF parent = "root" THEN 0 ELSE BoneAngle(skeleton, parent)
              IN  BoneAngle(skeleton, k) = parentWorld + BASE_ANGLES[k] + GetAngle(pose, k)

\* A skeleton was computed for a pose with a bent hip and a bent knee.
BoneAnglesComposeWitness ==
    /\ pc = "computed"
    /\ GetAngle(pose, "left.hip") # 0
    /\ GetAngle(pose, "left.knee") # 0

\* The length of the limb a joint key names.
LimbLengthOf(key) ==
    CASE key = "torso" -> TORSO_HEIGHT
      [] key = "waist" -> WAIST_HEIGHT
      [] key = "head" -> HEAD_PHYSICS_LEN
      [] key \in {"left.shoulder", "right.shoulder"} -> L_ARM
      [] key \in {"left.elbow", "right.elbow"} -> L_FOREARM
      [] key \in {"left.hand", "right.hand"} -> L_HAND
      [] key \in {"left.hip", "right.hip"} -> L_THIGH
      [] key \in {"left.knee", "right.knee"} -> L_SHIN
      [] key \in {"left.foot", "right.foot"} -> L_FOOT

\* C11: the position stored for every non-root joint is the stored position
\* of its hierarchy parent plus its limb length along its own world angle.
JointsFollowParents ==
    pc = "computed" =>
        \A k \in AngleKeys :
            JointPoint(skeleton, k)
              = getEndPoint(JointPoint(skeleton, hierarchy[k].parent),
                            BoneAngle(skeleton, k), LimbLengthOf(k))

\* C18: getDefaultPose returns offset (0, 0) and every joint angle 0.
DefaultPoseIsAllZero ==
    pc = "default" =>
        /\ newPose.offset = [x |-> 0, y |-> 0]
        /\ \A k \in AngleKeys : GetAngle(newPose, k) = 0

----------------------------------------------------------------------------
(* Pose extraction: extractPoseFromPhysicsBody(body, previousPose) for a   *)
(* body built from one pose and a previousPose chosen independently of it. *)

\* The poses the bodies are built from: a rest pose with the torso turned.
BodyPoseInput(p) ==
    \E q \in BasePoses, a \in AngleVals : p = SetAngle(q, "torso", a)

\* The previous poses: a rest pose with the torso and one more joint turned.
PreviousPoseInput(p) ==
    \E q \in BasePoses, k \in AngleKeys, a1 \in AngleVals, a2 \in AngleVals :
        p = BentPose(q, 0, "torso", a1, k, a2)

InitExtract ==
    /\ BodyPoseInput(pose)
    /\ body = createPhysicsBodyFromPose(pose)
    /\ PreviousPoseInput(previousPose)
    /\ pc = "built" /\ newPose = ZeroPose /\ skeleton = EmptySkeleton
    /\ InterpIdle
    /\ StepIdle /\ AppIdle /\ CanvasIdle /\ IkIdle /\ DragIdle /\ PlayIdle /\ HeapIdle

NextExtract == ExtractPose

SpecExtract == InitExtract /\ [][NextExtract]_vars

\* C2: every local angle extractPoseFromPhysicsBody returns lies within PI of
\* previousPose's angle for the same joint.
ExtractedWithinHalfTurn ==
    pc = "extracted" =>
        \A k \in AngleKeys :
            Abs(GetAngle(newPose, k) - GetAngle(previousPose, k)) <= PI

----------------------------------------------------------------------------
(* core/interpolation.ts.  t is tNum / T_DEN; results are times T_DEN.     *)

lerp(a, b, t) == a * (T_DEN - t) + b * t

lerpAngle(a, b, t) ==
    LET delta == b - a
        wrapped == IF delta > PI THEN delta - TWO_PI
                   ELSE IF delta < -PI THEN delta + TWO_PI
                   ELSE delta
    IN  a * T_DEN + wrapped * t

\* typeof a === 'number' for the value found at a path of PoseData (the path
\* is the list of keys that the code joins with '.').
IsNumberAt(path) ==
    \/ Len(path) = 2
    \/ Len(path) = 1 /\ path[1] \in {"torso", "waist", "head"}

\* a test for the offset object itself instead of the paths under it
MutStartsWithOffset(path) == path = <<"offset">>

\* path.startsWith('offset.')
StartsWithOffset(path) == Len(path) >= 1 /\ path[1] = "offset"

RECURSIVE interpolateRecursive(_, _, _, _)
interpolateRecursive(a, b, t, path) ==
    IF IsNumberAt(path)
    THEN IF StartsWithOffset(path) THEN lerp(a, b, t) ELSE lerpAngle(a, b, t)
    ELSE [key \in DOMAIN a \cap DOMAIN b |->
            interpolateRecursive(a[key], b[key], t, Append(path, key))]

interpolatePoses(a, b, t) == interpolateRecursive(a, b, t, <<>>)

InitInterpolate ==
    /\ \E q \in BasePoses, k \in AngleKeys, a \in AngleVals, b \in AngleVals,
          oa \in OffsetVals, ob \in OffsetVals :
            /\ poseA = BentPose(q, oa, k, a, k, a)
            /\ poseB = BentPose(q, ob, k, b, k, b)
    /\ tNum \in 0..T_DEN
    /\ interpolated = ZeroPose
    /\ CoreIdle /\ StepIdle /\ AppIdle /\ CanvasIdle /\ IkIdle /\ DragIdle /\ PlayIdle /\ HeapIdle

Interpolate ==
    /\ pc = "idle"
    /\ interpolated' = interpolatePoses(poseA, poseB, tNum)
    /\ pc' = "interpolated"
    /\ UNCHANGED <<pose, previousPose, body, newPose, skeleton, poseA, poseB, tNum,
                   stepVars, appVars, canvasVars, ikVars, dragVars, playVars, heap>>

NextInterpolate == Interpolate

SpecInterpolate == InitInterpolate /\ [][NextInterpolate]_vars

\* The angle in (-PI, PI] that differs from d by whole turns.
InHalfOpenTurn(d) == ((d + PI - 1) % TWO_PI) - PI + 1

\* C8: every angle field of the result is a + delta * t with delta the value
\* in (-PI, PI] congruent to b - a modulo a full turn.
AngleFieldsTakeShortestArc ==
    pc = "interpolated" =>
        \A k \in AngleKeys :
            GetAngle(interpolated, k)
              = GetAngle(poseA, k) * T_DEN
                + InHalfOpenTurn(GetAngle(poseB, k) - GetAngle(poseA, k)) * tNum

\* C8, the bound it states in particular: no angle field of the result is
\* further from a than half a turn times t.
AngleDeltaWithinHalfTurn ==
    pc = "interpolated" =>
        \A k \in AngleKeys :
            Abs(GetAngle(interpolated, k) - GetAngle(poseA, k) * T_DEN) <= PI * tNum

----------------------------------------------------------------------------
(* core/physics.ts: updatePhysicsBody(body, dt), one step per loop pass.   *)
(* Products and quotients of fixed-point numbers are rounded toward zero.  *)

MaxRestSteps == 2       \* rest length and separation differ by fewer 10 px steps than this

\* n * num / den
MulDiv(n, num, den) ==
    IF n * num >= 0 THEN (n * num) \div den ELSE -((-(n * num)) \div den)

\* the gravity of a 16 ms tick, whatever dt is
MutGravityStep(ms) == (GRAVITY_Y * 16 * 16 * SCALE) \div 1000000

\* GRAVITY.y * dt * dt for dt given in milliseconds
GravityStep(ms) == (GRAVITY_Y * ms * ms * SCALE) \div 1000000

\* 1. forces and integration, for one particle
IntegrateParticle(q, ms) ==
    IF q.mass = 0 THEN q
    ELSE LET velocity == [x |-> MulDiv(q.pos.x - q.prevPos.x, FRICTION_NUM, FRICTION_DEN),
                          y |-> MulDiv(q.pos.y - q.prevPos.y, FRICTION_NUM, FRICTION_DEN)]
         IN  [q EXCEPT !.prevPos = q.pos,
                       !.pos = [x |-> q.pos.x + velocity.x,
                                y |-> q.pos.y + velocity.y + GravityStep(ms)]]

\* pA.mass > 0 ? pA.mass / totalMass : 1, as the fraction <<numerator, denominator>>
Share(own, other, totalMass) == IF own > 0 THEN <<own, totalMass>> ELSE <<1, 1>>

\* the constraint solve without the test totalMass === 0
MutSolveConstraint(particles, c) ==
    LET pA == particles[c.particleAIndex + 1]
        pB == particles[c.particleBIndex + 1]
        delta == [x |-> pB.pos.x - pA.pos.x, y |-> pB.pos.y - pA.pos.y]
        dist == Hypot(delta.x, delta.y)
        totalMass == pA.mass + pB.mass
        pAShare == Share(pA.mass, pB.mass, totalMass)
        pBShare == Share(pB.mass, pA.mass, totalMass)
        corr(d, share) == MulDiv(d * (dist - c.restLength), STIFFNESS_NUM * share[1],
                                 dist * STIFFNESS_DEN * share[2])
    IN  IF dist * 1000 < SCALE THEN particles
        ELSE [particles EXCEPT
                ![c.particleAIndex + 1].pos =
                    [x |-> pA.pos.x + corr(delta.x, pBShare),
                     y |-> pA.pos.y + corr(delta.y, pBShare)],
                ![c.particleBIndex + 1].pos =
                    [x |-> pB.pos.x - corr(delta.x, pAShare),
                     y |-> pB.pos.y - corr(delta.y, pAShare)]]

\* 2. one constraint of one solver iteration
SolveConstraint(particles, c) ==
    LET pA == particles[c.particleAIndex + 1]
        pB == particles[c.particleBIndex + 1]
        delta == [x |-> pB.pos.x - pA.pos.x, y |-> pB.pos.y - pA.pos.y]
        dist == Hypot(delta.x, delta.y)
        totalMass == pA.mass + pB.mass
        pAShare == Share(pA.mass, pB.mass, totalMass)
        pBShare == Share(pB.mass, pA.mass, totalMass)
        \* delta * ((dist - restLength) / dist) * STIFFNESS * share
        corr(d, share) == MulDiv(d * (dist - c.restLength), STIFFNESS_NUM * share[1],
                                 dist * STIFFNESS_DEN * share[2])
    IN  IF dist * 1000 < SCALE THEN particles
        ELSE IF totalMass = 0 THEN particles
        ELSE [particles EXCEPT
                ![c.particleAIndex + 1].pos =
                    [x |-> pA.pos.x + corr(delta.x, pBShare),
                     y |-> pA.pos.y + corr(delta.y, pBShare)],
                ![c.particleBIndex + 1].pos =
                    [x |-> pB.pos.x - corr(delta.x, pAShare),
                     y |-> pB.pos.y - corr(delta.y, pAShare)]]

bounds ==
    [top |-> PARTICLE_RADIUS, bottom |-> H - PARTICLE_RADIUS,
     left |-> PARTICLE_RADIUS, right |-> W - PARTICLE_RADIUS]

\* the floor branch without p.prevPos.y = p.pos.y
MutFloor(q, vy) ==
    IF q.pos.y > bounds.bottom
    THEN [q EXCEPT !.pos.y = bounds.bottom,
                   !.prevPos = [x |-> q.prevPos.x - MulDiv(vy, 3, 20), y |-> q.prevPos.y]]
    ELSE q

\* the floor branch without the slide p.prevPos.x -= vy * impactFalloutFactor
MutFloorNoSlide(q, vy) ==
    IF q.pos.y > bounds.bottom
    THEN [q EXCEPT !.pos.y = bounds.bottom, !.prevPos.y = bounds.bottom]
    ELSE q

\* the floor branch of the collision pass
Floor(q, vy) ==
    IF q.pos.y > bounds.bottom
    THEN [q EXCEPT !.pos.y = bounds.bottom,
                   !.prevPos = [x |-> q.prevPos.x - MulDiv(vy, 3, 20), y |-> bounds.bottom]]
    ELSE q

Ceiling(q) ==
    IF q.pos.y < bounds.top
    THEN [q EXCEPT !.pos.y = bounds.top, !.prevPos.y = bounds.top]
    ELSE q

RightWall(q) ==
    IF q.pos.x > bounds.right
    THEN [q EXCEPT !.pos.x = bounds.right, !.prevPos.x = bounds.right]
    ELSE q

LeftWall(q) ==
    IF q.pos.x < bounds.left
    THEN [q EXCEPT !.pos.x = bounds.left, !.prevPos.x = bounds.left]
    ELSE q

\* a collision pass that skips the particles of mass 0, as the integration does
MutCollideParticle(q) ==
    IF q.mass = 0 THEN q
    ELSE LeftWall(RightWall(Ceiling(Floor(q, q.pos.y - q.prevPos.y))))

\* 3. the collision pass, for one particle
CollideParticle(q) == LeftWall(RightWall(Ceiling(Floor(q, q.pos.y - q.prevPos.y))))

Integrate ==
    /\ pc = "step"
    /\ body' = [body EXCEPT !.particles =
                    [i \in 1..Len(body.particles) |-> IntegrateParticle(body.particles[i], dtMs)]]
    /\ pc' = "solve" /\ iter' = 0 /\ cIdx' = 1
    /\ UNCHANGED <<pose, previousPose, newPose, skeleton, interpVars, dtMs, preCollide,
                   appVars, canvasVars, ikVars, dragVars, playVars, heap>>

\* the loops are over: for (i < SOLVER_ITERATIONS) and constraints.forEach
SolveDone == iter >= SOLVER_ITERATIONS \/ Len(body.constraints) = 0

Solve ==
    /\ pc = "solve" /\ ~SolveDone
    /\ body' = [body EXCEPT !.particles = SolveConstraint(body.particles, body.constraints[cIdx])]
    /\ IF cIdx < Len(body.constraints)
       THEN cIdx' = cIdx + 1 /\ iter' = iter
       ELSE cIdx' = 1 /\ iter' = iter + 1
    /\ UNCHANGED <<pc, pose, previousPose, newPose, skeleton, interpVars, dtMs, preCollide,
                   appVars, canvasVars, ikVars, dragVars, playVars, heap>>

Collide ==
    /\ pc = "solve" /\ SolveDone
    /\ preCollide' = body.particles
    /\ body' = [body EXCEPT !.particles =
                    [i \in 1..Len(body.particles) |-> CollideParticle(body.particles[i])]]
    /\ pc' = "stepped"
    /\ UNCHANGED <<pose, previousPose, newPose, skeleton, interpVars, dtMs, iter, cIdx,
                   appVars, canvasVars, ikVars, dragVars, playVars, heap>>

(* Bodies of two particles joined by one constraint, near the floor and the *)
(* right wall, at rest or moving.                                           *)

StepMasses == {0, MASS_END, MASS_PRIMARY}
StepVelocities ==
    {[x |-> 0, y |-> 0], [x |-> 0, y |-> 10 * SCALE], [x |-> 4 * SCALE, y |-> 10 * SCALE]}
StepPositionsA ==
    {[x |-> 400 * SCALE, y |-> 700 * SCALE], [x |-> 780 * SCALE, y |-> 790 * SCALE],
     [x |-> 3 * SCALE, y |-> 8 * SCALE]}
StepOffsetsB ==
    {[x |-> 30 * SCALE, y |-> 0], [x |-> 0, y |-> -30 * SCALE],
     [x |-> 30 * SCALE, y |-> 40 * SCALE], [x |-> 0, y |-> 0]}
StepRestDeltas == {k * 10 * SCALE : k \in (0 - MaxRestSteps + 1)..(MaxRestSteps - 1)}
StepDts == {0, 16}

Particle(id, pos, vel, mass) ==
    [id |-> id, pos |-> pos, prevPos |-> [x |-> pos.x - vel.x, y |-> pos.y - vel.y],
     mass |-> mass]

InitStep ==
    /\ \E a \in StepPositionsA, o \in StepOffsetsB, va \in StepVelocities, vb \in StepVelocities,
          ma \in StepMasses, mb \in StepMasses, r \in StepRestDeltas :
            LET b == [x |-> a.x + o.x, y |-> a.y + o.y]
                rest == Hypot(o.x, o.y) + r
            IN  /\ rest > 0
                /\ body = [particles |-> <<Particle("torso", a, va, ma),
                                           Particle("head", b, vb, mb)>>,
                           constraints |-> <<[particleAIndex |-> 0, particleBIndex |-> 1,
                                              restLength |-> rest]>>,
                           particleMap |-> [k \in {"torso", "head"} |->
                                               IF k = "torso" THEN 0 ELSE 1]]
    /\ dtMs \in StepDts
    /\ pc = "step" /\ iter = 0 /\ cIdx = 0 /\ preCollide = <<>>
    /\ pose = ZeroPose /\ previousPose = ZeroPose /\ newPose = ZeroPose
    /\ skeleton = EmptySkeleton
    /\ InterpIdle /\ AppIdle /\ CanvasIdle /\ IkIdle /\ DragIdle /\ PlayIdle /\ HeapIdle

NextStep == Integrate \/ Solve \/ Collide

SpecStep == InitStep /\ [][NextStep]_vars

\* The constraint the next Solve step works on joins a zero-mass particle
\* (given by its index) with a positive-mass one.
PinnedIn(c, zero, other) ==
    /\ body.particles[zero + 1].mass = 0
    /\ body.particles[other + 1].mass > 0
    /\ {c.particleAIndex, c.particleBIndex} = {zero, other}

\* C20: after updatePhysicsBody every particle, of mass 0 or not, has
\* 5 <= pos.x <= W - 5 and 5 <= pos.y <= H - 5.
AllParticlesInsideAfterStep ==
    pc = "stepped" =>
        \A i \in 1..Len(body.particles) :
            /\ 5 * SCALE <= body.particles[i].pos.x
            /\ body.particles[i].pos.x <= W - 5 * SCALE
            /\ 5 * SCALE <= body.particles[i].pos.y
            /\ body.particles[i].pos.y <= H - 5 * SCALE

\* a step with gravity that ends with a particle of mass 0 that was left of
\* the left wall and above the ceiling, and one that was below the floor
AllParticlesInsideAfterStepWitness ==
    /\ pc = "stepped" /\ dtMs > 0
    /\ \E i \in 1..Len(preCollide) :
          /\ preCollide[i].mass = 0
          /\ preCollide[i].pos.x < bounds.left
          /\ preCollide[i].pos.y < bounds.top
    /\ \E i \in 1..Len(preCollide) : preCollide[i].mass > 0

\* C6: solving a constraint between a zero-mass and a positive-mass particle
\* leaves the zero-mass particle where it is.
ZeroMassAbsorbsNothing ==
    [][(pc = "solve" /\ ~SolveDone) =>
            \A zero, other \in 0..(Len(body.particles) - 1) :
                PinnedIn(body.constraints[cIdx], zero, other) =>
                    body'.particles[zero + 1].pos = body.particles[zero + 1].pos]_vars

\* the two particles of constraint c are less than 0.001 apart
Coincident(c) ==
    Distance(body.particles[c.particleAIndex + 1].pos,
             body.particles[c.particleBIndex + 1].pos) * 1000 < SCALE

\* the two particles of constraint c both have mass 0
BothMassless(c) ==
    /\ body.particles[c.particleAIndex + 1].mass = 0
    /\ body.particles[c.particleBIndex + 1].mass = 0

\* C22: solving a constraint whose particles are less than 0.001 apart, or
\* both of mass 0, changes no particle.
DegenerateConstraintSkipped ==
    [][(/\ pc = "solve" /\ ~SolveDone
        /\ Coincident(body.constraints[cIdx]) \/ BothMassless(body.constraints[cIdx])) =>
            body'.particles = body.particles]_vars

\* the solver has been over a constraint between two particles of mass 0
\* that is not at its rest length
DegenerateConstraintSkippedWitness ==
    /\ pc = "solve" /\ iter >= 1
    /\ BothMassless(body.constraints[1])
    /\ ~Coincident(body.constraints[1])
    /\ Distance(body.particles[1].pos, body.particles[2].pos) # body.constraints[1].restLength

\* the solver has been over a constraint between two particles in one place,
\* one of them with mass
CoincidentConstraintReached ==
    /\ pc = "solve" /\ iter >= 1
    /\ Coincident(body.constraints[1])
    /\ ~BothMassless(body.constraints[1])

\* C7: a particle that is below the floor bound when the collision pass begins
\* ends the step at the floor bound with prevPos.y = pos.y.
FloorLanding ==
    pc = "stepped" =>
        \A i \in 1..Len(body.particles) :
            preCollide[i].pos.y > bounds.bottom =>
                /\ body.particles[i].pos.y = bounds.bottom
                /\ body.particles[i].pos.y = 795 * SCALE
                /\ body.particles[i].prevPos.y = body.particles[i].pos.y

\* A step ended after a particle that was moving down crossed the floor.
FloorLandingWitness ==
    /\ pc = "stepped"
    /\ \E i \in 1..Len(body.particles) :
            /\ preCollide[i].pos.y > bounds.bottom
            /\ preCollide[i].pos.y > preCollide[i].prevPos.y

\* the horizontal velocity pos.x - prevPos.x of a particle
VelocityX(q) == q.pos.x - q.prevPos.x

\* the particle has the horizontal velocity it had before the collision pass
\* plus 0.15 of the vertical velocity it had then
SlidOnLanding(before, after) ==
    VelocityX(after) = VelocityX(before) + MulDiv(before.pos.y - before.prevPos.y, 3, 20)

\* C21 as stated: every particle that is below the floor bound when the
\* collision pass begins ends the step with its horizontal velocity raised
\* by 0.15 of its vertical velocity.
FloorSlideAlways ==
    pc = "stepped" =>
        \A i \in 1..Len(body.particles) :
            preCollide[i].pos.y > bounds.bottom =>
                SlidOnLanding(preCollide[i], body.particles[i])

\* C21: every particle that is below the floor bound and between the side
\* wall bounds when the collision pass begins ends the step with its
\* horizontal velocity raised by 0.15 of its vertical velocity.
FloorSlideBetweenWalls ==
    pc = "stepped" =>
        \A i \in 1..Len(body.particles) :
            (/\ preCollide[i].pos.y > bounds.bottom
             /\ preCollide[i].pos.x >= bounds.left
             /\ preCollide[i].pos.x <= bounds.right) =>
                SlidOnLanding(preCollide[i], body.particles[i])

\* a step ended after a particle moving down and sideways crossed the floor
\* between the walls
FloorSlideBetweenWallsWitness ==
    /\ pc = "stepped"
    /\ \E i \in 1..Len(body.particles) :
          /\ preCollide[i].pos.y > bounds.bottom
          /\ preCollide[i].pos.x >= bounds.left /\ preCollide[i].pos.x <= bounds.right
          /\ preCollide[i].pos.y - preCollide[i].prevPos.y >= 7 * SCALE
          /\ VelocityX(preCollide[i]) # 0
          /\ VelocityX(body.particles[i]) # VelocityX(preCollide[i])

----------------------------------------------------------------------------
(* App.tsx and view/Canvas.tsx: the timeline, the two mode flags and the    *)
(* Canvas drag state.  A pose is represented by the angle of the joint the *)
(* drag controls, in quarter turns; 0 is getDefaultPose().                  *)

MaxFrames == 2          \* keyframes the timeline may hold
MaxHist == 2            \* timeline states the undo stack may hold

DefaultPoseId == 0
DragPoses == {0, 1, 1 + TWO_PI}         \* poses a drag handler may produce
ClickTargets == {"", "torso", "left.hand", "left.elbow"}    \* hit-test results
ControlledKeys == Keys \ {"root"}                           \* keys of boneToControlledAction

timelineState == [keyframes |-> keyframes, currentFrame |-> currentFrame]
currentPose == keyframes[currentFrame + 1]

\* hooks/useHistory: setState records the present state and drops the redo stack
canUndo == Len(past) > 0
canRedo == Len(future) > 0
CanRecord == Len(past) < MaxHist

\* which of the three poses App hands to the Canvas
poseForAnimateOrSelect == IF isPlaying THEN "animatedPose" ELSE "currentPose"
poseForCanvas == IF isPhysicsEnabled THEN "physicalPose" ELSE poseForAnimateOrSelect

\* Canvas: useEffect(() => setLocalPose(pose), [pose]), run after a render in
\* which App shows keyframe pose k (playing and physics are the new flags)
SyncLocalPose(k, playing, physics) ==
    localPose' = IF ~playing /\ ~physics /\ (k # currentPose \/ isPlaying \/ isPhysicsEnabled)
                 THEN k ELSE localPose

\* the timeline state and history after setTimelineState(ts)
SetTimelineState(ts) ==
    /\ CanRecord
    /\ past' = Append(past, timelineState)
    /\ future' = <<>>
    /\ keyframes' = ts.keyframes
    /\ currentFrame' = ts.currentFrame

\* the argument handlePoseCommit(committed) gives to setTimelineState
handlePoseCommit(committed) ==
    [timelineState EXCEPT !.keyframes = [keyframes EXCEPT ![currentFrame + 1] = committed]]

CoreUnchanged == UNCHANGED <<coreVars, interpVars, stepVars, ikVars, dragVars, playVars, heap>>

\* handleReset without setIsPhysicsEnabled(false)
MutHandleReset ==
    /\ UNCHANGED isPhysicsEnabled
    /\ SetTimelineState(handlePoseCommit(DefaultPoseId))
    /\ SyncLocalPose(DefaultPoseId, isPlaying, isPhysicsEnabled)
    /\ lastCall' = ""
    /\ UNCHANGED <<isPlaying, draggedPartKey, dragMode>> /\ CoreUnchanged

handleReset ==
    /\ isPhysicsEnabled' = FALSE
    /\ SetTimelineState(handlePoseCommit(DefaultPoseId))
    /\ SyncLocalPose(DefaultPoseId, isPlaying, FALSE)
    /\ lastCall' = ""
    /\ UNCHANGED <<isPlaying, draggedPartKey, dragMode>> /\ CoreUnchanged

\* handleTogglePhysics without setIsPlaying(false)
MutHandleTogglePhysics ==
    /\ isPhysicsEnabled' = ~isPhysicsEnabled
    /\ SyncLocalPose(currentPose, isPlaying, ~isPhysicsEnabled)
    /\ lastCall' = ""
    /\ UNCHANGED <<isPlaying, keyframes, currentFrame, past, future, draggedPartKey, dragMode>>
    /\ CoreUnchanged

handleTogglePhysics ==
    /\ IF ~isPhysicsEnabled
       THEN isPhysicsEnabled' = TRUE /\ isPlaying' = FALSE
       ELSE isPhysicsEnabled' = FALSE /\ UNCHANGED isPlaying
    /\ SyncLocalPose(currentPose, isPlaying', isPhysicsEnabled')
    /\ lastCall' = ""
    /\ UNCHANGED <<keyframes, currentFrame, past, future, draggedPartKey, dragMode>>
    /\ CoreUnchanged

\* Timeline: the frame buttons are disabled while physics is enabled
handleSelectFrame ==
    /\ ~isPhysicsEnabled
    /\ \E index \in 0..(Len(keyframes) - 1) :
            /\ SetTimelineState([timelineState EXCEPT !.currentFrame = index])
            /\ SyncLocalPose(keyframes[index + 1], FALSE, FALSE)
    /\ isPhysicsEnabled' = FALSE /\ isPlaying' = FALSE
    /\ lastCall' = ""
    /\ UNCHANGED <<draggedPartKey, dragMode>> /\ CoreUnchanged

\* newKeyframes.splice(start, deleteCount, ...items)
splice(seq, start, deleteCount, items) ==
    SubSeq(seq, 1, start) \o items \o SubSeq(seq, start + deleteCount + 1, Len(seq))

Min(a, b) == IF a < b THEN a ELSE b

handleAddFrame ==
    /\ ~isPhysicsEnabled
    /\ Len(keyframes) < MaxFrames
    /\ isPhysicsEnabled' = FALSE /\ isPlaying' = FALSE
    /\ SetTimelineState([keyframes |-> splice(keyframes, currentFrame + 1, 0, <<currentPose>>),
                         currentFrame |-> currentFrame + 1])
    /\ SyncLocalPose(currentPose, FALSE, FALSE)
    /\ lastCall' = ""
    /\ UNCHANGED <<draggedPartKey, dragMode>> /\ CoreUnchanged

\* handleDeleteFrame without its early return
MutHandleDeleteFrame ==
    /\ ~isPhysicsEnabled
    /\ isPhysicsEnabled' = FALSE /\ isPlaying' = FALSE
    /\ LET newKeyframes == splice(keyframes, currentFrame, 1, <<>>)
           newCurrentFrame == Min(currentFrame, Len(newKeyframes) - 1)
       IN  /\ SetTimelineState([keyframes |-> newKeyframes, currentFrame |-> newCurrentFrame])
           /\ IF newKeyframes = <<>> THEN UNCHANGED localPose
              ELSE SyncLocalPose(newKeyframes[newCurrentFrame + 1], FALSE, FALSE)
    /\ lastCall' = ""
    /\ UNCHANGED <<draggedPartKey, dragMode>> /\ CoreUnchanged

\* if (timelineState.keyframes.length <= 1) return; comes first (the Timeline
\* also disables the delete button then)
handleDeleteFrame ==
    /\ ~isPhysicsEnabled
    /\ IF Len(keyframes) <= 1
       THEN UNCHANGED <<appVars, canvasVars>>
       ELSE /\ isPhysicsEnabled' = FALSE /\ isPlaying' = FALSE
            /\ LET newKeyframes == splice(keyframes, currentFrame, 1, <<>>)
                   newCurrentFrame == Min(currentFrame, Len(newKeyframes) - 1)
               IN  /\ SetTimelineState([keyframes |-> newKeyframes,
                                        currentFrame |-> newCurrentFrame])
                   /\ SyncLocalPose(newKeyframes[newCurrentFrame + 1], FALSE, FALSE)
            /\ lastCall' = ""
            /\ UNCHANGED <<draggedPartKey, dragMode>>
    /\ CoreUnchanged

handleTogglePlay ==
    /\ ~isPhysicsEnabled
    /\ isPhysicsEnabled' = FALSE
    /\ isPlaying' = IF Len(keyframes) > 1 THEN ~isPlaying ELSE isPlaying
    /\ SyncLocalPose(currentPose, isPlaying', FALSE)
    /\ lastCall' = ""
    /\ UNCHANGED <<keyframes, currentFrame, past, future, draggedPartKey, dragMode>>
    /\ CoreUnchanged

\* Controls: the undo and redo buttons are disabled while physics is enabled
undo ==
    /\ canUndo /\ ~isPhysicsEnabled
    /\ LET previous == past[Len(past)]
       IN  /\ keyframes' = previous.keyframes
           /\ currentFrame' = previous.currentFrame
           /\ SyncLocalPose(previous.keyframes[previous.currentFrame + 1], isPlaying, FALSE)
    /\ past' = SubSeq(past, 1, Len(past) - 1)
    /\ future' = <<timelineState>> \o future
    /\ lastCall' = ""
    /\ UNCHANGED <<isPlaying, isPhysicsEnabled, draggedPartKey, dragMode>> /\ CoreUnchanged

redo ==
    /\ canRedo /\ ~isPhysicsEnabled
    /\ LET next == future[1]
       IN  /\ keyframes' = next.keyframes
           /\ currentFrame' = next.currentFrame
           /\ SyncLocalPose(next.keyframes[next.currentFrame + 1], isPlaying, FALSE)
    /\ past' = Append(past, timelineState)
    /\ future' = Tail(future)
    /\ lastCall' = ""
    /\ UNCHANGED <<isPlaying, isPhysicsEnabled, draggedPartKey, dragMode>> /\ CoreUnchanged

\* usePlayback / usePhysics hand App a new pose on an animation frame
Frame ==
    /\ isPlaying \/ isPhysicsEnabled
    /\ localPose' \in DragPoses \ {localPose}
    /\ lastCall' = ""
    /\ UNCHANGED <<appVars, draggedPartKey, dragMode>> /\ CoreUnchanged

isInteractionDisabled == isPhysicsEnabled

\* the drag mode handleMouseDown selects for the bone under the pointer
DragModeFor(key, shiftKey, altKey, metaKey) ==
    LET isEndEffector == key \in {Join(side, part) : side \in {"left", "right"},
                                                      part \in {"hand", "foot"}}
        isCoreBody == key \in {"head", "torso", "waist"}
    IN  IF shiftKey /\ key \notin {"torso", "waist", "head", "neck"} THEN "aim"
        ELSE IF isEndEffector /\ (altKey \/ metaKey) THEN "ik"
        ELSE IF isCoreBody /\ altKey THEN "grounded_ik"
        ELSE IF isCoreBody /\ metaKey THEN "full_body_ik"
        ELSE IF key \in ControlledKeys THEN "rotate"
        ELSE dragMode

\* boneToControlledAction[key].pivot || boneToControlledAction[key].joint
PivotKeyOf(key) == IF key \in {"torso", "waist"} THEN "root" ELSE key

\* pinsToUse when the user has set no pins: skeleton.joints[key] for each
\* default key (a joint position is held as the joint's key, as activePivot is)
DefaultPins(pinKeys) == [key \in pinKeys |-> key]

\* what is left unchanged by every handler of the Canvas
CanvasUnchanged ==
    UNCHANGED <<coreVars, interpVars, stepVars, mouseDelta, ikArgs, ikResult, playVars, heap>>

handleMouseDown ==
    /\ ~isInteractionDisabled
    /\ \E finalClickedKey \in ClickTargets, shiftKey, altKey, metaKey \in BOOLEAN :
            IF finalClickedKey # ""
            THEN /\ draggedPartKey' = finalClickedKey
                 /\ dragMode' = DragModeFor(finalClickedKey, shiftKey, altKey, metaKey)
                 /\ lastCall' = "onSelectPart"
                 /\ CASE dragMode' = "aim" ->
                            /\ controlledJoint' = finalClickedKey
                            /\ activePivot' = finalClickedKey
                            /\ UNCHANGED <<initialPoseRef, pinnedPoints, ikDriverKey>>
                      [] dragMode' = "ik" ->
                            /\ controlledJoint' = ""
                            /\ activePivot' = ""
                            /\ UNCHANGED <<initialPoseRef, pinnedPoints, ikDriverKey>>
                      [] dragMode' = "grounded_ik" ->
                            /\ ikDriverKey' = finalClickedKey
                            /\ pinnedPoints' = DefaultPins({"left.foot", "right.foot"})
                            /\ initialPoseRef' = <<localPose>>
                            /\ activePivot' = ""
                            /\ UNCHANGED controlledJoint
                      [] dragMode' = "full_body_ik" ->
                            /\ ikDriverKey' = finalClickedKey
                            /\ pinnedPoints' =
                                    DefaultPins({"left.hand", "right.hand", "left.foot", "right.foot"}
                                                \cup (IF finalClickedKey # "head" THEN {"head"} ELSE {}))
                            /\ initialPoseRef' = <<localPose>>
                            /\ activePivot' = ""
                            /\ UNCHANGED controlledJoint
                      [] dragMode' = "rotate" /\ finalClickedKey \in ControlledKeys ->
                            /\ controlledJoint' = finalClickedKey
                            /\ activePivot' = PivotKeyOf(finalClickedKey)
                            /\ initialPoseRef' = <<localPose>>
                            /\ UNCHANGED <<pinnedPoints, ikDriverKey>>
                      [] OTHER -> UNCHANGED <<dragVars, pinnedPoints, ikDriverKey>>
            ELSE /\ lastCall' = "onDeselect"
                 /\ UNCHANGED <<draggedPartKey, dragMode, dragVars, pinnedPoints, ikDriverKey>>
    /\ UNCHANGED <<appVars, localPose>> /\ CanvasUnchanged

handleMouseMove ==
    /\ draggedPartKey # ""
    /\ IF dragMode \in {"ik", "grounded_ik", "full_body_ik", "rotate", "aim"}
       THEN localPose' \in DragPoses
       ELSE UNCHANGED localPose
    /\ lastCall' = ""
    /\ UNCHANGED <<appVars, draggedPartKey, dragMode>> /\ CoreUnchanged

\* a % b of JavaScript: the sign follows the dividend
Rem(a, b) == IF a >= 0 THEN a % b ELSE -((-a) % b)

normalizeAngle(angle) ==
    LET newAngle == Rem(angle, 2 * PI)
    IN  IF newAngle > PI THEN newAngle - 2 * PI
        ELSE IF newAngle < -PI THEN newAngle + 2 * PI
        ELSE newAngle

\* handleMouseUp without dragModeRef.current = null
MutHandleMouseUp ==
    /\ IF dragMode # ""
       THEN LET finalPose == IF dragMode = "rotate" /\ controlledJoint # ""
                             THEN normalizeAngle(localPose)
                             ELSE localPose
            IN  /\ SetTimelineState(handlePoseCommit(finalPose))
                /\ localPose' = finalPose
                /\ lastCall' = "onPoseCommit"
       ELSE /\ lastCall' = ""
            /\ UNCHANGED <<keyframes, currentFrame, past, future, localPose>>
    /\ draggedPartKey' = ""
    /\ activePivot' = ""
    /\ controlledJoint' = ""
    /\ initialPoseRef' = <<>>
    /\ pinnedPoints' = <<>>
    /\ ikDriverKey' = ""
    /\ UNCHANGED <<isPlaying, isPhysicsEnabled, dragMode>> /\ CanvasUnchanged

\* bound to onMouseUp and to onMouseLeave
handleMouseUp ==
    /\ IF dragMode # ""
       THEN LET finalPose == IF dragMode = "rotate" /\ controlledJoint # ""
                             THEN normalizeAngle(localPose)
                             ELSE localPose
            IN  /\ SetTimelineState(handlePoseCommit(finalPose))
                /\ localPose' = finalPose
                /\ lastCall' = "onPoseCommit"
       ELSE /\ lastCall' = ""
            /\ UNCHANGED <<keyframes, currentFrame, past, future, localPose>>
    /\ draggedPartKey' = ""
    /\ activePivot' = ""
    /\ dragMode' = ""
    /\ controlledJoint' = ""
    /\ initialPoseRef' = <<>>
    /\ pinnedPoints' = <<>>
    /\ ikDriverKey' = ""
    /\ UNCHANGED <<isPlaying, isPhysicsEnabled>> /\ CanvasUnchanged

Init ==
    /\ keyframes = <<DefaultPoseId>> /\ currentFrame = 0
    /\ past = <<>> /\ future = <<>>
    /\ isPlaying = FALSE /\ isPhysicsEnabled = FALSE
    /\ localPose = DefaultPoseId /\ draggedPartKey = "" /\ dragMode = "" /\ lastCall = ""
    /\ CoreIdle /\ InterpIdle /\ StepIdle /\ IkIdle /\ DragIdle /\ PlayIdle /\ HeapIdle

Next ==
    \/ handleReset \/ handleTogglePhysics \/ handleTogglePlay
    \/ handleSelectFrame \/ handleAddFrame \/ handleDeleteFrame
    \/ undo \/ redo \/ Frame
    \/ handleMouseDown \/ handleMouseMove \/ handleMouseUp

Spec == Init /\ [][Next]_vars

\* C3: playback and physics are never both on, so the pose handed to the
\* Canvas is the physical pose exactly in physics mode, the animated pose
\* exactly in playback and the current keyframe exactly in edit mode.
ModesExclusive ==
    /\ ~(isPlaying /\ isPhysicsEnabled)
    /\ (poseForCanvas = "physicalPose") = (isPhysicsEnabled /\ ~isPlaying)
    /\ (poseForCanvas = "animatedPose") = (isPlaying /\ ~isPhysicsEnabled)
    /\ (poseForCanvas = "currentPose") = (~isPlaying /\ ~isPhysicsEnabled)

\* Physics is on over a timeline of several keyframes, after an undo.
ModesExclusiveWitness ==
    /\ isPhysicsEnabled /\ ~isPlaying
    /\ Len(keyframes) > 1 /\ canRedo

\* C4: the Canvas never calls onPoseCommit while physics is enabled.
NoCommitWhilePhysics == ~(isPhysicsEnabled /\ lastCall = "onPoseCommit")

\* C5: while playing, no mouse-down begins a drag and no mouse-up commits.
NoEditWhilePlaying == isPlaying => lastCall \notin {"onSelectPart", "onPoseCommit"}

\* C26: in every reachable state the timeline has at least one keyframe and
\* 0 <= currentFrame < keyframes.length, whatever sequence of select-frame,
\* add-frame, delete-frame, pose-commit and reset led there; delete-frame
\* with a single keyframe changes nothing.
CurrentFrameInTimeline ==
    /\ Len(keyframes) >= 1
    /\ currentFrame \in 0..(Len(keyframes) - 1)

\* the last of two keyframes has just been deleted while it was current
CurrentFrameInTimelineWitness ==
    /\ Len(keyframes) = 1 /\ currentFrame = 0
    /\ future = <<>> /\ past # <<>>
    /\ Len(past[Len(past)].keyframes) = 2
    /\ past[Len(past)].currentFrame = 1

\* C27: whenever isPlaying is true the timeline holds at least two keyframes,
\* after any sequence of toggle-play, add-frame, delete-frame, select-frame,
\* pose-commit, reset, undo and redo.
PlayingNeedsTwoKeyframes == isPlaying => Len(keyframes) >= 2

\* the same for the states in which no undo or redo has been clicked during
\* the running playback
PlayingStartsWithTwoKeyframes ==
    [][(~isPlaying /\ isPlaying') => Len(keyframes') >= 2]_vars

\* C28: a mouse-up or mouse-leave taken while a drag mode is set calls
\* onPoseCommit exactly once, and nothing but a mouse-up or mouse-leave commits
\* or clears the drag mode, so the first one after a mouse-down that set the
\* mode commits; that handler clears the drag mode, dragged part, pivot,
\* controlled joint, initial pose, drag pins and IK driver, and taken with no
\* drag mode set it commits nothing.
DragCommitsOnce ==
    [][/\ (handleMouseUp /\ dragMode # "") =>
            /\ lastCall' = "onPoseCommit"
            /\ past' = Append(past, timelineState)
            /\ Len(keyframes') = Len(keyframes) /\ currentFrame' = currentFrame
            /\ keyframes'[currentFrame + 1] = localPose'
       /\ handleMouseUp =>
            /\ dragMode' = "" /\ draggedPartKey' = "" /\ activePivot' = ""
            /\ controlledJoint' = "" /\ initialPoseRef' = <<>>
            /\ pinnedPoints' = <<>> /\ ikDriverKey' = ""
       /\ (handleMouseUp /\ dragMode = "") =>
            /\ lastCall' # "onPoseCommit"
            /\ UNCHANGED <<keyframes, currentFrame, past, future>>
       /\ (dragMode # "" /\ dragMode' = "") => handleMouseUp
       /\ lastCall' = "onPoseCommit" => handleMouseUp /\ dragMode # ""]_vars

\* a drag on the torso with the default pins has been committed and cleared
DragCommitsOnceWitness ==
    /\ lastCall = "onPoseCommit"
    /\ dragMode = "" /\ draggedPartKey = "" /\ pinnedPoints = <<>> /\ initialPoseRef = <<>>
    /\ keyframes[currentFrame + 1] = localPose
    /\ localPose # DefaultPoseId

\* a grounded-IK drag is under way: pins, driver and initial pose are set
GroundedDragReached ==
    /\ dragMode = "grounded_ik" /\ ikDriverKey = "torso"
    /\ DOMAIN pinnedPoints = {"left.foot", "right.foot"}
    /\ initialPoseRef # <<>> /\ localPose # initialPoseRef[1]

\* C19: isPhysicsEnabled becomes true only by handleTogglePhysics called while
\* it is false, and handleTogglePhysics called while it is true, handleReset,
\* handleSelectFrame, handleAddFrame, handleDeleteFrame and handleTogglePlay
\* each end with it false.
PhysicsOnlyToggles ==
    [][/\ (~isPhysicsEnabled /\ isPhysicsEnabled') => handleTogglePhysics
       /\ (isPhysicsEnabled /\ handleTogglePhysics) => ~isPhysicsEnabled'
       /\ handleReset => ~isPhysicsEnabled'
       /\ handleSelectFrame => ~isPhysicsEnabled'
       /\ handleAddFrame => ~isPhysicsEnabled'
       /\ handleDeleteFrame => ~isPhysicsEnabled'
       /\ handleTogglePlay => ~isPhysicsEnabled']_vars

\* physics running on a timeline of two keyframes, after an edit
PhysicsOnlyTogglesWitness ==
    /\ isPhysicsEnabled
    /\ Len(keyframes) = 2
    /\ past # <<>>

----------------------------------------------------------------------------
(* computeSkeleton called twice on the same pose, with calls of the other   *)
(* core functions on that pose in between.                                  *)

\* the caches a call that was handed an earlier result would start from
MutNewCaches == skeleton

\* const jointCache = {}; const boneCache = []: created by every call
NewCaches == [joints |-> <<>>, bones |-> <<>>]

\* jointCache[key] = p for every joint of sk, boneCache.push for every bone
RECURSIVE StoreJoints(_, _)
StoreJoints(jointCache, joints) ==
    IF joints = <<>> THEN jointCache
    ELSE LET j == Head(joints)
             at == {i \in 1..Len(jointCache) : jointCache[i].key = j.key}
         IN  StoreJoints(IF at = {} THEN Append(jointCache, j)
                         ELSE [i \in 1..Len(jointCache) |->
                                  IF i \in at THEN j ELSE jointCache[i]],
                         Tail(joints))

StoreInto(caches, sk) ==
    [joints |-> StoreJoints(caches.joints, sk.joints), bones |-> caches.bones \o sk.bones]

PurePoseInput(p) ==
    \E q \in BasePoses, ox \in OffsetVals, k \in {"torso", "left.elbow", "right.knee"},
       a \in AngleVals : p = BentPose(q, ox, k, a, k, a)

InitPure ==
    /\ PurePoseInput(pose)
    /\ pc = "start" /\ previousPose = ZeroPose /\ body = EmptyBody
    /\ newPose = ZeroPose /\ skeleton = EmptySkeleton
    /\ InterpIdle /\ StepIdle /\ AppIdle /\ CanvasIdle /\ IkIdle /\ DragIdle /\ PlayIdle /\ HeapIdle

CallComputeSkeleton ==
    /\ pc \in {"start", "computed"}
    /\ skeleton' = StoreInto(NewCaches, computeSkeleton(pose))
    /\ pc' = IF pc = "start" THEN "computed" ELSE "again"
    /\ UNCHANGED <<pose, previousPose, body, newPose, interpVars, stepVars, appVars, canvasVars, ikVars, dragVars, playVars, heap>>

CallCreateBody ==
    /\ pc = "computed"
    /\ body' = createPhysicsBodyFromPose(pose)
    /\ UNCHANGED <<pc, pose, previousPose, newPose, skeleton, interpVars, stepVars,
                   appVars, canvasVars, ikVars, dragVars, playVars, heap>>

CallExtractPose ==
    /\ pc = "computed" /\ body # EmptyBody
    /\ newPose' = extractPoseFromPhysicsBody(body, pose)
    /\ UNCHANGED <<pc, pose, previousPose, body, skeleton, interpVars, stepVars,
                   appVars, canvasVars, ikVars, dragVars, playVars, heap>>

CallInterpolate ==
    /\ pc = "computed"
    /\ poseA' = pose /\ poseB' = getDefaultPose
    /\ tNum' \in 1..(T_DEN - 1)
    /\ interpolated' = interpolatePoses(pose, getDefaultPose, tNum')
    /\ UNCHANGED <<coreVars, stepVars, appVars, canvasVars, ikVars, dragVars, playVars, heap>>

NextPure == CallComputeSkeleton \/ CallCreateBody \/ CallExtractPose \/ CallInterpolate

SpecPure == InitPure /\ [][NextPure]_vars

----------------------------------------------------------------------------
(* core/kinematics.ts: solveIK(rootPos, targetPos, l1, l2)                  *)

\* Math.acos(Math.max(-1, Math.min(1, num / den))) for den > 0, defined where
\* the result is a whole number of quarter turns.
Acos(num, den) ==
    CASE num >= den -> 0
      [] num <= -den -> PI
      [] num = 0 -> HALF_PI

\* a test that also takes a target exactly 0.1 away as coincident
MutTargetAtRoot(dist) == dist * 10 <= SCALE

\* dist < 0.1: the target is effectively at the root
TargetAtRoot(dist) == dist * 10 < SCALE

\* the elbow angle measured from the stretched limb
MutAngle2Of(angle2_raw) == angle2_raw

\* const angle2 = Math.PI - angle2_raw
Angle2Of(angle2_raw) == PI - angle2_raw

solveIK(rootPos, targetPos, l1, l2) ==
    LET dx0 == targetPos.x - rootPos.x
        dy0 == targetPos.y - rootPos.y
        dist0 == Hypot(dx0, dy0)
        maxReach == l1 + l2
        minReach == Abs(l1 - l2)
    IN  IF TargetAtRoot(dist0) THEN Null
        ELSE IF dist0 > maxReach THEN [angle1 |-> Atan2(dy0, dx0), angle2 |-> 0]
        ELSE LET tooClose == dist0 < minReach
                 pushed == IF tooClose
                           THEN [x |-> rootPos.x + MulDiv(dx0, minReach, dist0),
                                 y |-> rootPos.y + MulDiv(dy0, minReach, dist0)]
                           ELSE targetPos
                 dx == pushed.x - rootPos.x
                 dy == pushed.y - rootPos.y
                 dist == IF tooClose THEN minReach ELSE dist0
                 distSq == dist * dist
                 angle2_raw == Acos(l1 * l1 + l2 * l2 - distSq, 2 * l1 * l2)
                 angle1_part == Acos(distSq + l1 * l1 - l2 * l2, 2 * dist * l1)
                 targetAngle == Atan2(dy, dx)
             IN  [angle1 |-> targetAngle - angle1_part, angle2 |-> Angle2Of(angle2_raw)]

(* Direct calls of solveIK: targets on the four axes through the root, at   *)
(* the distances where every angle is a whole number of quarter turns.     *)

IkEpsilon == SCALE \div 10      \* 0.1

AxisDirs == {[x |-> 1, y |-> 0], [x |-> -1, y |-> 0], [x |-> 0, y |-> 1], [x |-> 0, y |-> -1]}
IkRoots == {[x |-> 400 * SCALE, y |-> 400 * SCALE], [x |-> 100 * SCALE, y |-> 250 * SCALE]}
IkLengths == {<<100 * SCALE, 50 * SCALE>>, <<50 * SCALE, 100 * SCALE>>,
              <<L_ARM, L_FOREARM>>, <<L_THIGH, L_SHIN>>}

\* the distances tried for limb lengths l1, l2
IkDistances(l1, l2) ==
    {0, IkEpsilon - 1, l1 + l2, l1 + l2 + 10 * SCALE}
      \cup (IF l1 # l2
            THEN {IkEpsilon, 10 * SCALE, Abs(l1 - l2) - 1, Abs(l1 - l2)}
            ELSE {})

IkArgsInput(a) ==
    \E r \in IkRoots, d \in AxisDirs, ls \in IkLengths :
        \E dist \in IkDistances(ls[1], ls[2]) :
            a = [rootPos |-> r,
                 targetPos |-> [x |-> r.x + d.x * dist, y |-> r.y + d.y * dist],
                 l1 |-> ls[1], l2 |-> ls[2]]

SolveIK ==
    /\ pc = "ik"
    /\ ikResult' = solveIK(ikArgs.rootPos, ikArgs.targetPos, ikArgs.l1, ikArgs.l2)
    /\ pc' = "solved"
    /\ UNCHANGED <<pose, previousPose, body, newPose, skeleton, interpVars, stepVars,
                   appVars, canvasVars, pinnedPoints, mouseDelta, ikDriverKey, ikArgs,
                   dragVars, playVars, heap>>

\* the distance from the root to the target of the call
IkDist == Hypot(ikArgs.targetPos.x - ikArgs.rootPos.x, ikArgs.targetPos.y - ikArgs.rootPos.y)

\* where the limb ends when its two bones take the angles r: the second
\* angle is local to the first bone
IkEnd(r) ==
    getEndPoint(getEndPoint(ikArgs.rootPos, r.angle1, ikArgs.l1),
                r.angle1 + r.angle2, ikArgs.l2)

(* view/Canvas.tsx: handleGroundedIk(pos) and handleFullBodyIk(pos), from   *)
(* initialPoseRef.current = pose to the pose handed to setLocalPose.        *)

HasPin(key) == key \in DOMAIN pinnedPoints

\* calculateCorrection: acc is [total, count]
calculateCorrection(acc, rootPos, key, maxReach) ==
    IF ~HasPin(key) THEN acc
    ELSE LET dx == pinnedPoints[key].x - rootPos.x
             dy == pinnedPoints[key].y - rootPos.y
             dist == Hypot(dx, dy)
             overshoot == dist - maxReach
         IN  IF dist > maxReach
             THEN [total |-> [x |-> acc.total.x + MulDiv(dx, overshoot, dist),
                              y |-> acc.total.y + MulDiv(dy, overshoot, dist)],
                   count |-> acc.count + 1]
             ELSE acc

\* the overstretch of the pinned arm and leg of one side
SideCorrection(acc, sk, side) ==
    calculateCorrection(
        calculateCorrection(acc, JointPoint(sk, Join(side, "shoulder")),
                            Join(side, "hand"), L_ARM + L_FOREARM),
        JointPoint(sk, Join(side, "hip")), Join(side, "foot"), L_THIGH + L_SHIN)

\* initialPose moved by the mouse
ProposedPose(initialPose) ==
    [initialPose EXCEPT !.offset = [x |-> @.x + mouseDelta.x, y |-> @.y + mouseDelta.y]]

\* the proposed pose pulled back by the average overstretch c of its pinned limbs
TensionAdjusted(proposedPose, c) ==
    IF c.count > 0
    THEN [proposedPose EXCEPT !.offset = [x |-> @.x + MulDiv(c.total.x, 1, c.count),
                                          y |-> @.y + MulDiv(c.total.y, 1, c.count)]]
    ELSE proposedPose

\* the final pose and its skeleton, as <<finalPose, finalSkeleton>>
FinalOf(initialPose) ==
    {<<finalPose, computeSkeleton(finalPose)>> :
        finalPose \in
          {TensionAdjusted(ProposedPose(initialPose), c) :
              c \in {SideCorrection(SideCorrection([total |-> NoPoint, count |-> 0],
                                                  proposedSkeleton, "left"),
                                   proposedSkeleton, "right") :
                        proposedSkeleton \in {computeSkeleton(ProposedPose(initialPose))}}}}

\* the IK solve of one pinned limb: newPose[side] is written only for a result
SolveLimb(p, finalSkeleton, side, rootJoint, midJoint, endJoint, parentKey, l1, l2) ==
    LET result == IF HasPin(Join(side, endJoint))
                  THEN solveIK(JointPoint(finalSkeleton, Join(side, rootJoint)),
                               pinnedPoints[Join(side, endJoint)], l1, l2)
                  ELSE Null
        parentAngle == BoneAngle(finalSkeleton, parentKey)
    IN  IF result # Null
        THEN [p EXCEPT ![side][rootJoint] = result.angle1 - parentAngle,
                       ![side][midJoint] = result.angle2]
        ELSE p

SolveSide(p, finalSkeleton, side) ==
    SolveLimb(SolveLimb(p, finalSkeleton, side, "shoulder", "elbow", "hand", "torso",
                        L_ARM, L_FOREARM),
              finalSkeleton, side, "hip", "knee", "foot", "waist", L_THIGH, L_SHIN)

SolvePinnedLimbs(p, finalSkeleton) ==
    SolveSide(SolveSide(p, finalSkeleton, "left"), finalSkeleton, "right")

\* handleFullBodyIk: the head pin turns the torso
PinHead(p, finalSkeleton) ==
    IF ikDriverKey # "head" /\ HasPin("head")
    THEN LET rootPos == JointPoint(finalSkeleton, "root")
             headPinPos == pinnedPoints["head"]
         IN  [p EXCEPT !.torso = Atan2(headPinPos.y - rootPos.y, headPinPos.x - rootPos.x)
                                   + HALF_PI]
    ELSE p

handleGroundedIk ==
    /\ pc = "drag"
    /\ \E final \in FinalOf(pose) :
          /\ skeleton' = final[2]
          /\ newPose' = SolvePinnedLimbs(final[1], final[2])
    /\ pc' = "grounded_ik"
    /\ UNCHANGED <<pose, previousPose, body, interpVars, stepVars, appVars, canvasVars, ikVars, dragVars, playVars, heap>>

handleFullBodyIk ==
    /\ pc = "drag"
    /\ ikDriverKey # ""
    /\ \E final \in FinalOf(pose) :
          /\ skeleton' = final[2]
          /\ newPose' = PinHead(SolvePinnedLimbs(final[1], final[2]), final[2])
    /\ pc' = "full_body_ik"
    /\ UNCHANGED <<pose, previousPose, body, interpVars, stepVars, appVars, canvasVars, ikVars, dragVars, playVars, heap>>

\* Drags tried: the mouse still or moved up by 10, every pin either on the
\* root joint of its limb or at full reach from it along an axis.
MouseDeltas == {NoPoint, [x |-> 0, y |-> -10 * SCALE]}
HandPinDirs == {NoPoint} \cup AxisDirs
IkPoses == BasePoses \cup {[ZeroPose EXCEPT !.torso = HALF_PI]}

PinOn(start, dir, reach) == [x |-> start.x + dir.x * reach, y |-> start.y + dir.y * reach]

\* pins of the hands chosen by direction, of the feet and the head where the
\* skeleton sk has them
PinsAt(sk, hands, feet, head) ==
    [k \in {Join(side, "hand") : side \in DOMAIN hands}
           \cup (IF feet THEN {"left.foot", "right.foot"} ELSE {})
           \cup (IF head THEN {"head"} ELSE {}) |->
        CASE k = "left.hand" ->
               PinOn(JointPoint(sk, "left.shoulder"), hands["left"], L_ARM + L_FOREARM)
          [] k = "right.hand" ->
               PinOn(JointPoint(sk, "right.shoulder"), hands["right"], L_ARM + L_FOREARM)
          [] OTHER -> JointPoint(sk, k)]

HandChoices ==
    UNION {[sides -> HandPinDirs] : sides \in SUBSET {"left", "right"}}

InitIk ==
    /\ previousPose = ZeroPose /\ body = EmptyBody /\ newPose = ZeroPose
    /\ skeleton = EmptySkeleton
    /\ InterpIdle /\ StepIdle /\ AppIdle /\ CanvasIdle
    /\ DragIdle /\ PlayIdle /\ HeapIdle
    /\ ikResult = Null
    /\ \/ /\ pc = "ik"
          /\ IkArgsInput(ikArgs)
          /\ pose = ZeroPose /\ pinnedPoints = <<>> /\ mouseDelta = NoPoint
          /\ ikDriverKey = ""
       \/ /\ pc = "drag"
          /\ ikArgs = NoArgs
          /\ pose \in IkPoses
          /\ mouseDelta \in MouseDeltas
          /\ ikDriverKey \in {"root", "head"}
          /\ \E hands \in HandChoices, feet \in BOOLEAN, head \in BOOLEAN :
                /\ (feet /\ mouseDelta # NoPoint) =>
                      \A side \in DOMAIN hands : hands[side].x = 0
                /\ head => pose.torso = 0 /\ pose.head = 0
                /\ \E sk \in {computeSkeleton(IF feet THEN pose ELSE ProposedPose(pose))} :
                      pinnedPoints = PinsAt(sk, hands, feet, head)

NextIk == SolveIK \/ handleGroundedIk \/ handleFullBodyIk

SpecIk == InitIk /\ [][NextIk]_vars

\* the two angles of the limb of one side that starts at rootJoint
LimbAngles(p, side, rootJoint, midJoint) == <<p[side][rootJoint], p[side][midJoint]>>

\* the pinned limb whose pin lies within 0.1 of its root joint in sk
PinAtRoot(sk, side, rootJoint, endJoint) ==
    /\ HasPin(Join(side, endJoint))
    /\ LET rootPos == JointPoint(sk, Join(side, rootJoint))
           pinPos == pinnedPoints[Join(side, endJoint)]
       IN  Hypot(pinPos.x - rootPos.x, pinPos.y - rootPos.y) * 10 < SCALE

\* C13: solveIK returns null exactly when the target is less than 0.1 from
\* the root, and a pinned limb for which it returns null in handleGroundedIk
\* or handleFullBodyIk keeps the two angles it had in the pose of the drag.
NullOnlyAtRoot ==
    /\ pc = "solved" => (ikResult = Null <=> IkDist * 10 < SCALE)
    /\ pc \in {"grounded_ik", "full_body_ik"} =>
          \A side \in {"left", "right"} :
             /\ PinAtRoot(skeleton, side, "shoulder", "hand") =>
                   LimbAngles(newPose, side, "shoulder", "elbow")
                     = LimbAngles(pose, side, "shoulder", "elbow")
             /\ PinAtRoot(skeleton, side, "hip", "foot") =>
                   LimbAngles(newPose, side, "hip", "knee")
                     = LimbAngles(pose, side, "hip", "knee")

\* a full-body drag with the left hand pinned on its shoulder and the right
\* hand pinned at arm's length, which is solved
NullOnlyAtRootWitness ==
    /\ pc = "full_body_ik"
    /\ pose = getDefaultPose
    /\ mouseDelta # NoPoint
    /\ PinAtRoot(skeleton, "left", "shoulder", "hand")
    /\ HasPin("right.hand") /\ ~PinAtRoot(skeleton, "right", "shoulder", "hand")
    /\ LimbAngles(newPose, "right", "shoulder", "elbow")
         # LimbAngles(pose, "right", "shoulder", "elbow")
    /\ newPose.left.shoulder = HALF_PI

\* C14: for l1 # l2 and a target at least 0.1 and less than |l1 - l2| from
\* the root, solveIK returns the angles it returns for the target moved out
\* to |l1 - l2| on the same bearing: angle2 is a half turn and the limb ends
\* on that moved target.
TooCloseFoldsLimb ==
    (/\ pc = "solved"
     /\ ikArgs.l1 # ikArgs.l2
     /\ IkDist * 10 >= SCALE
     /\ IkDist < Abs(ikArgs.l1 - ikArgs.l2)) =>
        LET minReach == Abs(ikArgs.l1 - ikArgs.l2)
            moved == [x |-> ikArgs.rootPos.x
                              + MulDiv(ikArgs.targetPos.x - ikArgs.rootPos.x, minReach, IkDist),
                      y |-> ikArgs.rootPos.y
                              + MulDiv(ikArgs.targetPos.y - ikArgs.rootPos.y, minReach, IkDist)]
        IN  /\ ikResult # Null
            /\ ikResult = solveIK(ikArgs.rootPos, moved, ikArgs.l1, ikArgs.l2)
            /\ ikResult.angle2 = PI
            /\ IkEnd(ikResult) = moved

\* the call with l1 = 100, l2 = 50 and the target 10 away
TooCloseFoldsLimbWitness ==
    /\ pc = "solved"
    /\ ikArgs.l1 = 100 * SCALE /\ ikArgs.l2 = 50 * SCALE
    /\ IkDist = 10 * SCALE
    /\ ikResult # Null

\* the limb is pinned and solveIK has a result for it on the skeleton sk
LimbSolved(sk, side, rootJoint, endJoint) ==
    HasPin(Join(side, endJoint)) /\ ~PinAtRoot(sk, side, rootJoint, endJoint)

\* the bone of the limb's root joint in the skeleton of newPose has, modulo a
\* full turn, the world angle solveIK gave for the first segment
RootBoneFollowsSolver(sk, side, rootJoint, endJoint, l1, l2) ==
    (BoneAngle(computeSkeleton(newPose), Join(side, rootJoint))
       - solveIK(JointPoint(sk, Join(side, rootJoint)),
                 pinnedPoints[Join(side, endJoint)], l1, l2).angle1) % TWO_PI = 0

\* C23: after handleGroundedIk or handleFullBodyIk wrote the shoulder or hip
\* angle of a pinned limb, computeSkeleton of the resulting pose gives that
\* joint's bone the world angle of the solver's first segment, modulo a turn.
IkUsesBaseAngles ==
    pc \in {"grounded_ik", "full_body_ik"} =>
        \A side \in {"left", "right"} :
            /\ LimbSolved(skeleton, side, "shoulder", "hand") =>
                  RootBoneFollowsSolver(skeleton, side, "shoulder", "hand", L_ARM, L_FOREARM)
            /\ LimbSolved(skeleton, side, "hip", "foot") =>
                  RootBoneFollowsSolver(skeleton, side, "hip", "foot", L_THIGH, L_SHIN)

\* the same for the legs alone, whose base angles are 0
IkLegsFollowSolver ==
    pc \in {"grounded_ik", "full_body_ik"} =>
        \A side \in {"left", "right"} :
            LimbSolved(skeleton, side, "hip", "foot") =>
                RootBoneFollowsSolver(skeleton, side, "hip", "foot", L_THIGH, L_SHIN)

----------------------------------------------------------------------------
(* core/physics.ts: updatePhysicsBody on the body createPhysicsBodyFromPose *)
(* has just built.                                                          *)

FreshOffsetsX == {0, 10 * SCALE, 300 * SCALE}
FreshOffsetsY == {0, 300 * SCALE}
FreshBentKeys == {"torso", "left.elbow", "right.knee"}
FreshAngles == {0, HALF_PI, PI}

FreshPoseInput(p) ==
    \E q \in BasePoses, ox \in FreshOffsetsX, oy \in FreshOffsetsY,
       k \in FreshBentKeys, a \in FreshAngles :
        p = [BentPose(q, ox, k, a, k, a) EXCEPT !.offset.y = oy]

InitFresh ==
    /\ FreshPoseInput(pose)
    /\ body = createPhysicsBodyFromPose(pose)
    /\ dtMs \in StepDts
    /\ pc = "step" /\ iter = 0 /\ cIdx = 0 /\ preCollide = <<>>
    /\ previousPose = pose /\ newPose = ZeroPose /\ skeleton = EmptySkeleton
    /\ InterpIdle /\ AppIdle /\ CanvasIdle /\ IkIdle /\ DragIdle /\ PlayIdle /\ HeapIdle

SpecFresh == InitFresh /\ [][NextStep]_vars

\* every particle lies inside bounds
InsideBounds(particles) ==
    \A i \in 1..Len(particles) :
        /\ particles[i].pos.x >= bounds.left /\ particles[i].pos.x <= bounds.right
        /\ particles[i].pos.y >= bounds.top /\ particles[i].pos.y <= bounds.bottom

FreshBodyOutsideReached ==
    /\ pc = "stepped" /\ dtMs = 0
    /\ ~InsideBounds(createPhysicsBodyFromPose(pose).particles)

----------------------------------------------------------------------------
(* hooks/usePlayback.ts: the animate callback of a running playback.  Time *)
(* is counted in ticks of frameDuration / T_DEN, so t is tNum / T_DEN.     *)

MaxPlayFrames == 4      \* keyframes of the longest timeline played
MaxPlayCycles == 2      \* ping-pong periods a playback is followed for

\* numSegments = 2 * (numKeyframes - 1)
NumSegments(numKeyframes) == 2 * (numKeyframes - 1)

MaxPlayTicks == MaxPlayCycles * NumSegments(MaxPlayFrames) * T_DEN

\* a timeline position that leaves startFrameRef out
MutTimelineTicks(numKeyframes, startFrame, elapsedTicks) ==
    elapsedTicks % (NumSegments(numKeyframes) * T_DEN)

\* timelineTime = (elapsedTime + startTimeOffset) % totalDuration, in ticks
TimelineTicks(numKeyframes, startFrame, elapsedTicks) ==
    (elapsedTicks + startFrame * T_DEN) % (NumSegments(numKeyframes) * T_DEN)

\* a backward branch that counts from numSegments - 1
MutFromIndexOf(numKeyframes, segmentIndex) ==
    IF segmentIndex < numKeyframes - 1
    THEN segmentIndex
    ELSE NumSegments(numKeyframes) - 1 - segmentIndex

\* fromIndex of the forward and of the backward branch
FromIndexOf(numKeyframes, segmentIndex) ==
    IF segmentIndex < numKeyframes - 1
    THEN segmentIndex
    ELSE NumSegments(numKeyframes) - segmentIndex

\* toIndex of the forward and of the backward branch
ToIndexOf(numKeyframes, segmentIndex) ==
    IF segmentIndex < numKeyframes - 1
    THEN segmentIndex + 1
    ELSE FromIndexOf(numKeyframes, segmentIndex) - 1

\* keyframes[i] of the code (indices from 0); Null stands for undefined
KeyframeAt(i) ==
    IF i \in 0..(Len(keyframes) - 1) THEN keyframes[i + 1] ELSE Null

\* a pose in the units of interpolation results
TimesTDen(p) == interpolatePoses(p, p, 0)

\* The keyframes played: pairwise different poses.
PlayKeyframe(i) == BentPose(ZeroPose, i * SCALE, "torso", i % TWO_PI, "head", -(i % PI))

InitPlay ==
    /\ \E n \in 2..MaxPlayFrames :
        /\ keyframes = [i \in 1..n |-> PlayKeyframe(i)]
        /\ currentFrame \in 0..(n - 1)
    /\ isPlaying = TRUE /\ isPhysicsEnabled = FALSE
    /\ past = <<>> /\ future = <<>>
    /\ pc = "started"
    /\ elapsed = 0 /\ fromIndex = 0 /\ toIndex = 0
    /\ poseA = ZeroPose /\ poseB = ZeroPose /\ tNum = 0
    \* useState(keyframes[startFrame] || keyframes[0])
    /\ interpolated = TimesTDen(IF KeyframeAt(currentFrame) # Null
                                THEN KeyframeAt(currentFrame) ELSE KeyframeAt(0))
    /\ pose = ZeroPose /\ previousPose = ZeroPose /\ body = EmptyBody
    /\ newPose = ZeroPose /\ skeleton = EmptySkeleton
    /\ StepIdle /\ CanvasIdle /\ IkIdle /\ DragIdle /\ HeapIdle

\* One call of animate by requestAnimationFrame: the first at most a tick
\* after the start, each later one a tick or two after the one before.
Animate ==
    /\ pc \in {"started", "playing"}
    /\ isPlaying /\ Len(keyframes) > 1
    /\ \E now \in 0..MaxPlayTicks :
        /\ IF pc = "started" THEN now \in 0..1 ELSE now - elapsed \in 1..2
        /\ elapsed' = now
        /\ pc' = "playing"
        /\ IF NumSegments(Len(keyframes)) <= 0
           THEN UNCHANGED <<fromIndex, toIndex, interpVars>>
           ELSE \E timelineTicks \in {TimelineTicks(Len(keyframes), currentFrame, now)} :
                \E segmentIndex \in {timelineTicks \div T_DEN} :
                    /\ tNum' = timelineTicks - segmentIndex * T_DEN
                    /\ fromIndex' = FromIndexOf(Len(keyframes), segmentIndex)
                    /\ toIndex' = ToIndexOf(Len(keyframes), segmentIndex)
                    /\ poseA' = KeyframeAt(fromIndex')
                    /\ poseB' = KeyframeAt(toIndex')
                    /\ IF poseA' # Null /\ poseB' # Null
                       THEN interpolated' = interpolatePoses(poseA', poseB', tNum')
                       ELSE UNCHANGED interpolated
    /\ UNCHANGED <<pose, previousPose, body, newPose, skeleton, stepVars, appVars,
                   canvasVars, ikVars, dragVars, heap>>

NextPlay == Animate

SpecPlay == InitPlay /\ [][NextPlay]_vars

\* C24: for N >= 2 keyframes, a start frame in 0..N-1 and any elapsed time
\* >= 0, animate picks fromIndex and toIndex in 0..N-1 that differ by exactly
\* one and a t in [0, 1), and hands interpolatePoses two existing keyframes.
AnimatePicksNeighbours ==
    pc = "playing" =>
        /\ fromIndex \in 0..(Len(keyframes) - 1)
        /\ toIndex \in 0..(Len(keyframes) - 1)
        /\ Abs(fromIndex - toIndex) = 1
        /\ tNum \in 0..(T_DEN - 1)
        /\ poseA # Null /\ poseB # Null
        /\ poseA = keyframes[fromIndex + 1] /\ poseB = keyframes[toIndex + 1]

\* the backward branch at the last keyframe, between two keyframes
AnimatePicksNeighboursWitness ==
    /\ pc = "playing"
    /\ Len(keyframes) >= 3
    /\ fromIndex = Len(keyframes) - 1 /\ toIndex = Len(keyframes) - 2
    /\ tNum > 0

\* the segment that follows the segment from f to t of a ping-pong over n keyframes
NextSegment(n, f, t) ==
    IF t > f
    THEN IF t = n - 1 THEN <<n - 1, n - 2>> ELSE <<t, t + 1>>
    ELSE IF t = 0 THEN <<0, 1>> ELSE <<t, t - 1>>

\* C25: playback is a ping-pong that begins at the start frame: at elapsed 0
\* the pose shown is keyframes[startFrame], and as time advances the segment
\* played stays or is followed by the next of 0 -> 1 -> ... -> N-1 -> ... -> 0,
\* each segment lasting one frameDuration.
PingPongFromStartFrame ==
    [][pc' = "playing" =>
        /\ elapsed' = 0 => interpolated' = TimesTDen(keyframes[currentFrame + 1])
        /\ pc = "playing" =>
            IF tNum + (elapsed' - elapsed) < T_DEN
            THEN /\ <<fromIndex', toIndex'>> = <<fromIndex, toIndex>>
                 /\ tNum' = tNum + (elapsed' - elapsed)
            ELSE /\ <<fromIndex', toIndex'>> = NextSegment(Len(keyframes), fromIndex, toIndex)
                 /\ tNum' = tNum + (elapsed' - elapsed) - T_DEN]_vars

\* a whole period after a start in the middle of the timeline
PingPongFromStartFrameWitness ==
    /\ pc = "playing"
    /\ Len(keyframes) = 3 /\ currentFrame = 1
    /\ elapsed = NumSegments(3) * T_DEN
    /\ fromIndex = 1 /\ toIndex = 2 /\ tNum = 0
    /\ interpolated = TimesTDen(keyframes[2])

\* a playback started at the last keyframe
PlaybackFromLastFrameReached ==
    /\ pc = "playing" /\ elapsed = 0
    /\ currentFrame = Len(keyframes) - 1

----------------------------------------------------------------------------
(* Pose objects.  keyframes, localPose and initialPoseRef hold references   *)
(* into heap, which maps every PoseData object created so far to its value *)
(* (a value is one of DragPoses, as in Spec).  Each action is a handler or  *)
(* core function seen by the objects it creates, shares and writes.        *)

MaxObjects == 3         \* PoseData objects created in one run

CanAllocate == Len(heap) < MaxObjects

\* the reference of the object the next allocation creates
FreshRef == Len(heap) + 1

\* const newPose = JSON.parse(JSON.stringify(p)), then the writes to newPose
CopyAndWrite(value) == heap' = Append(heap, value)

\* App.tsx: the initial timeline holds one object made by getDefaultPose(), and
\* the Canvas is handed that object (useEffect(() => setLocalPose(pose)))
InitObjects ==
    /\ heap = <<DefaultPoseId>>
    /\ keyframes = <<1>> /\ currentFrame = 0
    /\ past = <<>> /\ future = <<>>
    /\ isPlaying = FALSE /\ isPhysicsEnabled = FALSE
    /\ localPose = 1 /\ draggedPartKey = "" /\ dragMode = "" /\ lastCall = ""
    /\ DragIdle
    /\ CoreIdle /\ InterpIdle /\ StepIdle /\ IkIdle /\ PlayIdle

ObjectsUnchanged ==
    UNCHANGED <<coreVars, interpVars, stepVars, ikVars, playVars, past, future,
                isPlaying, isPhysicsEnabled, draggedPartKey, activePivot, controlledJoint>>

\* handleAddFrame: the object of the current keyframe is spliced in a second time
AddFrameSharing ==
    /\ Len(keyframes) < MaxFrames
    /\ keyframes' = splice(keyframes, currentFrame + 1, 0, <<keyframes[currentFrame + 1]>>)
    /\ currentFrame' = currentFrame + 1
    /\ localPose' = keyframes'[currentFrame' + 1]
    /\ lastCall' = ""
    /\ UNCHANGED <<heap, dragMode, initialPoseRef>> /\ ObjectsUnchanged

\* handleSelectFrame: the Canvas is handed the object of the selected keyframe
SelectFrameSharing ==
    /\ \E index \in 0..(Len(keyframes) - 1) :
            /\ currentFrame' = index
            /\ localPose' = keyframes[index + 1]
    /\ lastCall' = ""
    /\ UNCHANGED <<heap, keyframes, dragMode, initialPoseRef>> /\ ObjectsUnchanged

\* handleReset: handlePoseCommit(getDefaultPose()) puts a new object into a
\* copy of the keyframes array
ResetAllocating ==
    /\ CanAllocate
    /\ CopyAndWrite(DefaultPoseId)
    /\ keyframes' = [keyframes EXCEPT ![currentFrame + 1] = FreshRef]
    /\ localPose' = FreshRef
    /\ lastCall' = ""
    /\ UNCHANGED <<currentFrame, dragMode, initialPoseRef>> /\ ObjectsUnchanged

\* handleMouseDown: initialPoseRef.current = localPose (the same object)
MouseDownSharing ==
    /\ \E mode \in {"rotate", "aim", "ik", "grounded_ik", "full_body_ik"} :
            /\ dragMode' = mode
            /\ initialPoseRef' = IF mode \in {"rotate", "grounded_ik", "full_body_ik"}
                                 THEN <<localPose>> ELSE initialPoseRef
    /\ lastCall' = "onSelectPart"
    /\ UNCHANGED <<heap, keyframes, currentFrame, localPose>> /\ ObjectsUnchanged

\* a drag handler that writes the new angles into the object it was given
MutDragCopying ==
    /\ dragMode # ""
    /\ \E value \in DragPoses : heap' = [heap EXCEPT ![localPose] = value]
    /\ lastCall' = ""
    /\ UNCHANGED <<localPose, keyframes, currentFrame, dragMode, initialPoseRef>>
    /\ ObjectsUnchanged

\* handleMouseMove: handleRotate, handleAim and handleIk copy the local pose
\* inside setLocalPose, handleGroundedIk and handleFullBodyIk copy
\* initialPoseRef.current; the copy is written and becomes the local pose
DragCopying ==
    /\ dragMode # ""
    /\ dragMode \in {"grounded_ik", "full_body_ik"} => initialPoseRef # <<>>
    /\ CanAllocate
    /\ \E value \in DragPoses : CopyAndWrite(value)
    /\ localPose' = FreshRef
    /\ lastCall' = ""
    /\ UNCHANGED <<keyframes, currentFrame, dragMode, initialPoseRef>> /\ ObjectsUnchanged

\* handleMouseUp: a rotate drag commits a normalised copy of the local pose,
\* the other drags commit the local pose object itself
MouseUpCommitting ==
    /\ dragMode # ""
    /\ IF dragMode = "rotate"
       THEN /\ CanAllocate
            /\ CopyAndWrite(normalizeAngle(heap[localPose]))
            /\ localPose' = FreshRef
       ELSE UNCHANGED <<heap, localPose>>
    /\ keyframes' = [keyframes EXCEPT ![currentFrame + 1] = localPose']
    /\ dragMode' = "" /\ initialPoseRef' = <<>>
    /\ lastCall' = "onPoseCommit"
    /\ UNCHANGED currentFrame /\ ObjectsUnchanged

\* extractPoseFromPhysicsBody(body, previousPose) and interpolatePoses(a, b, t)
\* on keyframe objects: the result is a new object, handed to the Canvas
CoreResultAllocating ==
    /\ dragMode = ""
    /\ CanAllocate
    /\ \E value \in DragPoses : CopyAndWrite(value)
    /\ localPose' = FreshRef
    /\ lastCall' = ""
    /\ UNCHANGED <<keyframes, currentFrame, dragMode, initialPoseRef>> /\ ObjectsUnchanged

NextObjects ==
    \/ AddFrameSharing \/ SelectFrameSharing \/ ResetAllocating
    \/ MouseDownSharing \/ DragCopying \/ MouseUpCommitting
    \/ CoreResultAllocating

SpecObjects == InitObjects /\ [][NextObjects]_vars

SharedKeyframeReached ==
    /\ Len(keyframes) = 2 /\ keyframes[1] = keyframes[2]
    /\ dragMode # "" /\ localPose # keyframes[2]

----------------------------------------------------------------------------
(* extractPoseFromPhysicsBody on bodies whose particleMap lacks some keys. *)

MaxMissing == 2         \* keys taken out of a particleMap

\* a body without the particleMap entries of the keys in missing
WithoutParticles(b, missing) ==
    [b EXCEPT !.particleMap = [k \in (DOMAIN b.particleMap) \ missing |-> b.particleMap[k]]]

MissingKeys(b) == Keys \ DOMAIN b.particleMap

\* Previous poses: a rest pose moved aside with every joint turned by a.
TurnedPose(q, a) ==
    [offset |-> [x |-> 10 * SCALE, y |-> 0],
     torso |-> q.torso + a, waist |-> q.waist + a, head |-> q.head + a,
     left |-> [j \in DOMAIN q.left |-> q.left[j] + a],
     right |-> [j \in DOMAIN q.right |-> q.right[j] + a]]

\* the sets of at most n keys
RECURSIVE MissingSets(_)
MissingSets(n) ==
    IF n = 0 THEN {{}}
    ELSE LET smaller == MissingSets(n - 1)
         IN  smaller \cup {m \cup {k} : m \in smaller, k \in Keys}

InitMissing ==
    /\ \E q \in BasePoses, a \in {0, HALF_PI} : pose = SetAngle(q, "torso", a)
    /\ \E missing \in MissingSets(MaxMissing) :
        body = WithoutParticles(createPhysicsBodyFromPose(pose), missing)
    /\ \E q \in BasePoses, a \in {0, HALF_PI, PI} : previousPose = TurnedPose(q, a)
    /\ pc = "built" /\ newPose = ZeroPose /\ skeleton = EmptySkeleton
    /\ InterpIdle
    /\ StepIdle /\ AppIdle /\ CanvasIdle /\ IkIdle /\ DragIdle /\ PlayIdle /\ HeapIdle

NextMissing == ExtractPose

SpecMissing == InitMissing /\ [][NextMissing]_vars

\* key or one of the joints above it in the hierarchy is in missing
RECURSIVE CutOff(_, _)
CutOff(key, missing) ==
    \/ key \in missing
    \/ hierarchy[key].parent # "" /\ CutOff(hierarchy[key].parent, missing)

\* C30: with the root, torso or waist particle absent from particleMap the
\* result equals previousPose in every field; with another joint's particle
\* absent that joint and all its descendants keep previousPose's angles and
\* every other field is what the complete body gives; the call returns.
MissingParticlesHoldPrevious ==
    pc = "extracted" =>
        IF MissingKeys(body) \cap {"root", "torso", "waist"} # {}
        THEN newPose = previousPose
        ELSE \E complete \in {extractPoseFromPhysicsBody(createPhysicsBodyFromPose(pose),
                                                         previousPose)} :
                /\ newPose.offset = complete.offset
                /\ \A k \in AngleKeys :
                    GetAngle(newPose, k) = IF CutOff(k, MissingKeys(body))
                                           THEN GetAngle(previousPose, k)
                                           ELSE GetAngle(complete, k)

\* the left elbow's particle is absent: elbow and hand keep angles the
\* complete body would have changed, shoulder and right arm are extracted
MissingParticlesHoldPreviousWitness ==
    /\ pc = "extracted"
    /\ MissingKeys(body) = {"left.elbow"}
    /\ \E complete \in {extractPoseFromPhysicsBody(createPhysicsBodyFromPose(pose),
                                                   previousPose)} :
        /\ newPose.left.elbow = previousPose.left.elbow
        /\ newPose.left.hand = previousPose.left.hand
        /\ complete.left.elbow # previousPose.left.elbow
        /\ complete.left.hand # previousPose.left.hand
        /\ newPose.left.shoulder # previousPose.left.shoulder
        /\ newPose.right.elbow # previousPose.right.elbow

\* the root's particle is absent and the complete body would have moved the pose
RootMissingReached ==
    /\ pc = "extracted"
    /\ "root" \in MissingKeys(body)
    /\ newPose = previousPose
    /\ extractPoseFromPhysicsBody(createPhysicsBodyFromPose(pose), previousPose) # previousPose

====
